---- MODULE Spec2Model ----
(***************************************************************************)
(* Sova Sentinel: the slot-lock service (crates/server).                   *)
(*                                                                         *)
(* The store is the slot_locks table of db/mod.rs, a sequence of rows in   *)
(* rowid order. Every Database transaction runs under the connection       *)
(* mutex, so a transaction is one atomic step. get_slot_status and         *)
(* batch_get_slot_status await the Bitcoin oracle between two              *)
(* transactions; they are split at that await, and other requests may run  *)
(* in between. SpecConcurrent runs two requests side by side with the      *)
(* mutex taken and released in steps of its own.                           *)
(***************************************************************************)
EXTENDS Integers, Sequences, FiniteSets, TLC

\* ---------------------------------------------------------------- bounds
MaxRows == 2
MaxBlock == 2
MaxBtc == 3
MaxBatch == 2
MaxTime == 0
\* BITCOIN_REVERT_THRESHOLD, a configuration value (18 by default), scaled
\* down so that delta below, at and above it all occur within MaxBtc.
RevertThreshold == 1
\* BITCOIN_CONFIRMATION_THRESHOLD (6 by default), scaled down, and the
\* greatest number of confirmations the node reports.
ConfirmationThreshold == 2
MaxConfirmations == 3
\* BITCOIN_RPC_MAX_RETRIES (5 by default) ranges over 0..MaxRetries.
MaxRetries == 2
\* The client calls followed within one with_retry; reached only when the
\* retry count has wrapped around.
MaxAttempts == 4

\* u64 arithmetic, scaled to 30 bits (TLC's integers are 32 bits wide); every
\* modelled height is far below the modulus.
U64Modulus == 2^30

\* u32 arithmetic, scaled the same way.
U32Modulus == 2^30

\* Option<T>: None is the empty sequence, Some(x) the one-element sequence.
None == <<>>
Some(x) == <<x>>
IsSome(o) == o # <<>>
Unwrap(o) == o[1]

\* ---------------------------------------------------------------- inputs
Contracts == {"0x123"}
SlotIndexes == {<<1>>, <<2>>}
\* "txid1" and "txid2" stand for ids of 64 hex digits, "not-a-txid" for a
\* string that is none.
Txids == {"txid1", "txid2", "not-a-txid"}

SlotIdentifiers ==
    [contract_address : Contracts, slot_index : SlotIndexes]

\* The slots batch lock requests carry: the first key with either of two
\* payloads, the second key with the first payload (so two keys can share a
\* txid).
SlotData(contract_address, slot_index, btc_txid, revert_value, current_value) ==
    [ contract_address |-> contract_address, slot_index |-> slot_index,
      revert_value |-> revert_value, current_value |-> current_value,
      btc_txid |-> btc_txid ]

SlotDatas ==
    { SlotData("0x123", <<1>>, "txid1", <<4>>, <<7>>),
      SlotData("0x123", <<1>>, "txid2", <<>>, <<>>),
      SlotData("0x123", <<2>>, "txid1", <<4>>, <<7>>) }

\* The slots lock_slot requests carry: those, and the second key with a txid
\* that is not well formed (a lock request stores the string unparsed).
LockSlotDatas ==
    SlotDatas \cup { SlotData("0x123", <<2>>, "not-a-txid", <<4>>, <<7>>) }

Blocks == 1..MaxBlock
\* The Bitcoin height lock requests carry.
LockBtcBlocks == {1}
BtcBlocks == 0..MaxBtc

SeqsUpTo(S, n) == UNION { [1..m -> S] : m \in 0..n }

VARIABLES
    rows,             \* the slot_locks table, in rowid order
    overflow_checks,  \* build profile: TRUE panics on u64 underflow, FALSE wraps
    poisoned,         \* the connection mutex was poisoned by a panic under it
    pc,               \* per task: where its status request is suspended
    req,              \* per task: the status request in flight
    loc,              \* per task: the locals kept across the await
    out,              \* the response being sent, with the request it answers,
                      \* the table and the task's locals as they were before
                      \* the handler's last step; Idle once delivered
    prev,             \* the get_slot_status exchange delivered last, kept
                      \* while the same request is repeated and nothing else
                      \* runs (recorded under SpecHistory only)
    mutex,            \* the holder of the connection mutex, None when free
                      \* (it is free between the atomic transaction steps;
                      \* SpecConcurrent takes and releases it step by step)
    bitcoin_service   \* the fields of BitcoinRpcService set at start-up:
                      \* max_retries and confirmation_threshold

vars == <<rows, overflow_checks, poisoned, pc, req, loc, out, prev, mutex,
          bitcoin_service>>

Tasks == {"t1"}

\* ---------------------------------------------------------------- store

\* slot_index_int: big-endian decoding of at most 8 bytes.
RECURSIVE from_be_bytes(_)
from_be_bytes(bytes) ==
    IF bytes = <<>> THEN 0
    ELSE 256 * from_be_bytes(SubSeq(bytes, 1, Len(bytes) - 1)) + bytes[Len(bytes)]

slot_index_int(slot_index) ==
    IF Len(slot_index) <= 8 THEN Some(from_be_bytes(slot_index)) ELSE None

SameKey(r, contract_address, slot_index) ==
    r.contract_address = contract_address /\ r.slot_index = slot_index

\* SELECT 1 ... WHERE contract_address = ?1 AND slot_index = ?2 AND end_block IS NULL
is_slot_locked_query(rs, contract_address, slot_index) ==
    { i \in DOMAIN rs : SameKey(rs[i], contract_address, slot_index)
                        /\ rs[i].end_block = None }

is_slot_locked_with_transaction(rs, contract_address, slot_index) ==
    is_slot_locked_query(rs, contract_address, slot_index) # {}

\* INSERT of one SlotInsertData; end_block is NULL, created_at the current time.
NewRow(slot, ts) ==
    [ start_block |-> slot.start_block,
      end_block |-> None,
      btc_block |-> slot.btc_block,
      contract_address |-> slot.contract_address,
      slot_index |-> slot.slot_index,
      slot_index_int |-> slot.slot_index_int,
      btc_txid |-> slot.btc_txid,
      revert_value |-> slot.revert_value,
      current_value |-> slot.current_value,
      created_at |-> ts ]

insert_slot_lock(rs, slot, ts) == Append(rs, NewRow(slot, ts))

VisibleAt_any_start(r, current_block) ==
    r.end_block = None \/ r.end_block = Some(current_block)

VisibleAt_strictly_after_start(r, current_block) ==
    /\ (r.end_block = None \/ r.end_block = Some(current_block))
    /\ r.start_block < current_block

\* The WHERE clause shared by get_slot_query and batch_get_locked_slots.
VisibleAt(r, current_block) ==
    /\ (r.end_block = None \/ r.end_block = Some(current_block))
    /\ r.start_block <= current_block

\* ORDER BY start_block, created_at DESC: start_block ascending, then
\* created_at descending; rows equal on both keep the scan (rowid) order.
OrderedBefore(rs, i, j) ==
    \/ rs[i].start_block < rs[j].start_block
    \/ /\ rs[i].start_block = rs[j].start_block
       /\ rs[i].created_at > rs[j].created_at
    \/ /\ rs[i].start_block = rs[j].start_block
       /\ rs[i].created_at = rs[j].created_at
       /\ i < j

\* get_slot_query with LIMIT 1: the rowid of the selected row, 0 if none.
get_slot_query(rs, contract_address, slot_index, current_block) ==
    LET q == { i \in DOMAIN rs : SameKey(rs[i], contract_address, slot_index)
                                 /\ VisibleAt(rs[i], current_block) }
    IN IF q = {} THEN 0
       ELSE CHOOSE i \in q : \A j \in q \ {i} : OrderedBefore(rs, i, j)

LockedSlot(r) ==
    [ btc_txid |-> r.btc_txid,
      btc_block |-> r.btc_block,
      contract_address |-> r.contract_address,
      slot_index |-> r.slot_index,
      revert_value |-> r.revert_value,
      current_value |-> r.current_value,
      start_block |-> r.start_block,
      end_block |-> r.end_block ]

get_slot_with_transaction(rs, contract_address, slot_index, current_block) ==
    LET i == get_slot_query(rs, contract_address, slot_index, current_block)
    IN IF i = 0 THEN None ELSE Some(LockedSlot(rs[i]))

get_slot(rs, contract_address, slot_index, current_block) ==
    get_slot_with_transaction(rs, contract_address, slot_index, current_block)

unlock_slot_query_deletes(rs, end_block, contract_address, slot_index) ==
    SelectSeq(rs, LAMBDA r : ~(SameKey(r, contract_address, slot_index)
                               /\ r.end_block = None))

unlock_slot_query_overwrites(rs, end_block, contract_address, slot_index) ==
    [ i \in DOMAIN rs |->
        IF SameKey(rs[i], contract_address, slot_index)
        THEN [rs[i] EXCEPT !.end_block = Some(end_block)]
        ELSE rs[i] ]

\* UPDATE ... SET end_block = ?1 WHERE key AND end_block IS NULL
unlock_slot_query(rs, end_block, contract_address, slot_index) ==
    [ i \in DOMAIN rs |->
        IF SameKey(rs[i], contract_address, slot_index) /\ rs[i].end_block = None
        THEN [rs[i] EXCEPT !.end_block = Some(end_block)]
        ELSE rs[i] ]

unlock_slot_with_transaction(rs, contract_address, slot_index, end_block) ==
    unlock_slot_query(rs, end_block, contract_address, slot_index)

\* unlock_slot: the same statement in a transaction of its own.
unlock_slot(rs, contract_address, slot_index, end_block) ==
    unlock_slot_with_transaction(rs, contract_address, slot_index, end_block)

\* The elements of s whose flag in keep is TRUE, in order.
RECURSIVE Filter(_, _)
Filter(s, keep) ==
    IF s = <<>> THEN <<>>
    ELSE LET rest == Filter(Tail(s), Tail(keep))
         IN IF Head(keep) THEN <<Head(s)>> \o rest ELSE rest

RECURSIVE InsertAll(_, _, _)
InsertAll(rs, slots, ts) ==
    IF slots = <<>> THEN rs
    ELSE InsertAll(insert_slot_lock(rs, Head(slots), ts), Tail(slots), ts)

batch_insert_results_unchecked(rs, slots) == [ i \in DOMAIN slots |-> TRUE ]

\* batch_insert_slot_locks: every slot is checked against the table as it is
\* before the insert; the kept slots go in by one multi-row INSERT.
batch_insert_results(rs, slots) ==
    [ i \in DOMAIN slots |->
        ~is_slot_locked_with_transaction(rs, slots[i].contract_address,
                                         slots[i].slot_index) ]

batch_insert_slot_locks(rs, slots, ts) ==
    InsertAll(rs, Filter(slots, batch_insert_results(rs, slots)), ts)

\* batch_get_locked_slots: the rows come in scan order and go into a HashMap
\* keyed by (contract_address, slot_index), a later row replacing an earlier
\* one; the result follows the input order.
slot_map_get(rs, contract_address, slot_index, current_block) ==
    LET q == { i \in DOMAIN rs : SameKey(rs[i], contract_address, slot_index)
                                 /\ VisibleAt(rs[i], current_block) }
    IN IF q = {} THEN None
       ELSE Some(LockedSlot(rs[CHOOSE i \in q : \A j \in q : j <= i]))

batch_get_locked_slots(rs, slots, current_block) ==
    [ i \in DOMAIN slots |->
        slot_map_get(rs, slots[i].contract_address, slots[i].slot_index,
                     current_block) ]

batch_unlock_slots_overwrites(rs, slots) ==
    IF slots = <<>> THEN rs
    ELSE [ i \in DOMAIN rs |->
            IF \E k \in DOMAIN slots :
                  SameKey(rs[i], slots[k].contract_address, slots[k].slot_index)
            THEN [rs[i] EXCEPT !.end_block = Some(slots[1].end_block)]
            ELSE rs[i] ]

\* batch_unlock_slots: one UPDATE, with the end_block of the first slot.
batch_unlock_slots(rs, slots) ==
    IF slots = <<>> THEN rs
    ELSE [ i \in DOMAIN rs |->
            IF /\ \E k \in DOMAIN slots :
                    SameKey(rs[i], slots[k].contract_address, slots[k].slot_index)
               /\ rs[i].end_block = None
            THEN [rs[i] EXCEPT !.end_block = Some(slots[1].end_block)]
            ELSE rs[i] ]

\* ---------------------------------------------------------------- service

Idle == [op |-> "none"]

\* with_transaction: fails without running the closure when the mutex is
\* poisoned; the handlers map that to Status::internal.
\* A handler's result: Ok(response), Status::internal, or no response at all
\* because the task panicked.
Ok(response) == [code |-> "ok", body |-> response]
InternalError == [code |-> "internal"]
Panicked == [code |-> "panic"]

Completed(op, request, response, locals) ==
    out' = [op |-> op, req |-> request, resp |-> response,
            before |-> rows, locals |-> locals]

\* CURRENT_TIMESTAMP has a resolution of one second: an insert happens in the
\* second of the latest row or in a later one.
Latest(rs) ==
    IF rs = <<>> THEN 0
    ELSE CHOOSE ts \in { rs[i].created_at : i \in DOMAIN rs } :
            \A i \in DOMAIN rs : rs[i].created_at <= ts

Timestamps(rs) == Latest(rs)..MaxTime

\* SlotInsertData from a request slot.
SlotInsertData(slot, start_block, btc_block) ==
    [ contract_address |-> slot.contract_address,
      start_block |-> start_block,
      btc_block |-> btc_block,
      slot_index |-> slot.slot_index,
      slot_index_int |-> slot_index_int(slot.slot_index),
      btc_txid |-> slot.btc_txid,
      revert_value |-> slot.revert_value,
      current_value |-> slot.current_value ]

LockSlotRequests ==
    { [ locked_at_block |-> b, btc_block |-> c,
        contract_address |-> s.contract_address, slot_index |-> s.slot_index,
        revert_value |-> s.revert_value, current_value |-> s.current_value,
        btc_txid |-> s.btc_txid ] :
        b \in Blocks, c \in LockBtcBlocks, s \in LockSlotDatas }

LockSlotResponse(status, request) ==
    [ status |-> status, contract_address |-> request.contract_address,
      slot_index |-> request.slot_index ]

lock_slot_is_locked_ignored(rs, request) == FALSE

lock_slot_is_locked(rs, request) ==
    is_slot_locked_with_transaction(rs, request.contract_address, request.slot_index)

\* lock_slot: one transaction, at time now.
lock_slot(request, now) ==
    /\ IF poisoned
       THEN /\ Completed("lock_slot", request, InternalError, Idle)
            /\ UNCHANGED rows
       ELSE IF lock_slot_is_locked(rows, request)
       THEN /\ Completed("lock_slot", request,
                         Ok(LockSlotResponse("AlreadyLocked", request)), Idle)
            /\ UNCHANGED rows
       ELSE /\ Len(rows) < MaxRows
            /\ rows' = insert_slot_lock(rows,
                          SlotInsertData(request, request.locked_at_block,
                                         request.btc_block), now)
            /\ Completed("lock_slot", request,
                         Ok(LockSlotResponse("Locked", request)), Idle)
    /\ UNCHANGED <<overflow_checks, poisoned, pc, req, loc>>

LockSlot ==
    /\ out = Idle
    /\ UNCHANGED <<mutex, bitcoin_service>>
    /\ prev' = Idle
    /\ \E request \in LockSlotRequests, now \in Timestamps(rows) : lock_slot(request, now)

Indexes(s) == [i \in 1..Len(s) |-> i]

is_empty_never(slots) == FALSE

\* req.slots.is_empty(), the first test of every batch handler.
is_empty(slots) == slots = <<>>

BatchLockSlotRequests ==
    { [locked_at_block |-> b, btc_block |-> c, slots |-> s] :
        b \in Blocks, c \in LockBtcBlocks, s \in SeqsUpTo(SlotDatas, MaxBatch) }

SlotLockStatus(slot, status) ==
    [ contract_address |-> slot.contract_address, slot_index |-> slot.slot_index,
      status |-> status ]

\* batch_lock_slot, inside its transaction: the rows found by
\* batch_get_locked_slots at locked_at_block decide the answers.
batch_lock_existing(rs, request) ==
    batch_get_locked_slots(rs, request.slots, request.locked_at_block)

batch_lock_responses(rs, request) ==
    LET existing_slots == batch_lock_existing(rs, request)
    IN [ idx \in DOMAIN request.slots |->
           IF IsSome(existing_slots[idx])
           THEN SlotLockStatus(request.slots[idx], "AlreadyLocked")
           ELSE SlotLockStatus(request.slots[idx], "Locked") ]

batch_lock_slots_to_insert(rs, request) ==
    LET existing_slots == batch_lock_existing(rs, request)
        kept == SelectSeq(Indexes(request.slots),
                          LAMBDA idx : ~IsSome(existing_slots[idx]))
    IN [ k \in DOMAIN kept |->
           SlotInsertData(request.slots[kept[k]], request.locked_at_block,
                          request.btc_block) ]

batch_lock_slot(request, now) ==
    /\ IF is_empty(request.slots)
       THEN /\ Completed("batch_lock_slot", request, Ok(<<>>), Idle)
            /\ UNCHANGED rows
       ELSE IF poisoned
       THEN /\ Completed("batch_lock_slot", request, InternalError, Idle)
            /\ UNCHANGED rows
       ELSE LET slots_to_insert == batch_lock_slots_to_insert(rows, request)
                after == IF slots_to_insert # <<>>
                         THEN batch_insert_slot_locks(rows, slots_to_insert, now)
                         ELSE rows
            IN /\ Len(after) <= MaxRows
               /\ rows' = after
               /\ Completed("batch_lock_slot", request,
                            Ok(batch_lock_responses(rows, request)), Idle)
    /\ UNCHANGED <<overflow_checks, poisoned, pc, req, loc>>

BatchLockSlot ==
    /\ out = Idle
    /\ UNCHANGED <<mutex, bitcoin_service>>
    /\ prev' = Idle
    /\ \E request \in BatchLockSlotRequests, now \in Timestamps(rows) :
           batch_lock_slot(request, now)

BatchUnlockSlotRequests ==
    { [current_block |-> b, btc_block |-> c, slots |-> s] :
        b \in Blocks, c \in {0}, s \in SeqsUpTo(SlotIdentifiers, MaxBatch) }

batch_unlock_slots_to_unlock(request) ==
    [ i \in DOMAIN request.slots |->
        [ contract_address |-> request.slots[i].contract_address,
          slot_index |-> request.slots[i].slot_index,
          end_block |-> request.current_block ] ]

\* batch_unlock_slot: one transaction; the response echoes the request's slots.
batch_unlock_slot(request) ==
    /\ IF is_empty(request.slots)
       THEN /\ Completed("batch_unlock_slot", request, Ok(<<>>), Idle)
            /\ UNCHANGED rows
       ELSE IF poisoned
       THEN /\ Completed("batch_unlock_slot", request, InternalError, Idle)
            /\ UNCHANGED rows
       ELSE /\ rows' = batch_unlock_slots(rows, batch_unlock_slots_to_unlock(request))
            /\ Completed("batch_unlock_slot", request, Ok(request.slots), Idle)
    /\ UNCHANGED <<overflow_checks, poisoned, pc, req, loc>>

BatchUnlockSlot ==
    /\ out = Idle
    /\ UNCHANGED <<mutex, bitcoin_service>>
    /\ prev' = Idle
    /\ \E request \in BatchUnlockSlotRequests : batch_unlock_slot(request)

\* ------------------------------------------------------- status requests

GetSlotStatusRequests ==
    { [ current_block |-> b, btc_block |-> c,
        contract_address |-> k.contract_address, slot_index |-> k.slot_index ] :
        b \in Blocks, c \in BtcBlocks, k \in SlotIdentifiers }

GetSlotStatusResponse(status, slot, revert_value, current_value) ==
    [ status |-> status, contract_address |-> slot.contract_address,
      slot_index |-> slot.slot_index, revert_value |-> revert_value,
      current_value |-> current_value ]

\* req.btc_block - slot.btc_block on u64: the difference, wrapped around when
\* the request's height is the smaller one (a build without overflow checks).
block_delta(request_btc_block, slot_btc_block) ==
    (request_btc_block - slot_btc_block) % U64Modulus

already_unlocked_never(slot_info) == FALSE

\* The test for a row closed by an earlier call: end_block is set.
already_unlocked(slot_info) == IsSome(slot_info.end_block)

closed_status_early_revert(delta) ==
    IF delta >= RevertThreshold THEN "Reverted" ELSE "Unlocked"

\* The answer for a row that is already closed (end_block set).
closed_status(delta) ==
    IF delta > RevertThreshold THEN "Reverted" ELSE "Unlocked"

Start(t, op, request, locals) ==
    /\ pc' = [pc EXCEPT ![t] = op]
    /\ req' = [req EXCEPT ![t] = request]
    /\ loc' = [loc EXCEPT ![t] = locals]

Finish(t) ==
    /\ pc' = [pc EXCEPT ![t] = "idle"]
    /\ req' = [req EXCEPT ![t] = Idle]
    /\ loc' = [loc EXCEPT ![t] = Idle]

\* prev survives a step of a get_slot_status call that repeats its request.
KeepPrev(request) ==
    prev' = IF prev = Idle THEN Idle
            ELSE IF prev.req = request THEN prev ELSE Idle

\* get_slot_status up to the await of is_tx_confirmed: the read by get_slot,
\* the early returns, the block delta.
get_slot_status_read(t, request) ==
    /\ pc[t] = "idle"
    /\ UNCHANGED <<rows, overflow_checks, poisoned>>
    /\ IF poisoned
       THEN /\ Completed("get_slot_status", request, InternalError, Idle)
            /\ UNCHANGED <<pc, req, loc>>
       ELSE
       LET slot == get_slot(rows, request.contract_address, request.slot_index,
                            request.current_block)
       IN IF slot = None
          THEN /\ Completed("get_slot_status", request,
                            Ok(GetSlotStatusResponse("Unlocked", request, <<>>, <<>>)),
                            Idle)
               /\ UNCHANGED <<pc, req, loc>>
          ELSE
          LET slot_info == Unwrap(slot)
              delta == block_delta(request.btc_block, slot_info.btc_block)
          IN IF request.btc_block < slot_info.btc_block /\ overflow_checks
             THEN /\ Completed("get_slot_status", request, Panicked, Idle)
                  /\ UNCHANGED <<pc, req, loc>>
             ELSE IF already_unlocked(slot_info)
             THEN /\ Completed("get_slot_status", request,
                         Ok(GetSlotStatusResponse(closed_status(delta), request,
                                                  <<>>, <<>>)), Idle)
                  /\ UNCHANGED <<pc, req, loc>>
             ELSE /\ Start(t, "get_slot_status", request,
                           [slot_info |-> slot_info, block_delta |-> delta,
                            oracle |-> "pending"])
                  /\ UNCHANGED out

GetSlotStatusRead ==
    /\ out = Idle
    /\ UNCHANGED <<mutex, bitcoin_service>>
    /\ \E t \in Tasks, request \in GetSlotStatusRequests :
           /\ get_slot_status_read(t, request)
           /\ KeepPrev(request)

\* Variants of get_slot_status_decide with one slip each: the revert test off
\* by one upwards, the confirmed row left open, the revert test non-strict,
\* the confirmation tested before the revert.
get_slot_status_decide_late_revert(slot, delta, confirmation_status) ==
    IF slot = None
    THEN <<"Unlocked", <<>>, <<>>, FALSE>>
    ELSE IF delta > RevertThreshold + 1
    THEN <<"Reverted", Unwrap(slot).revert_value, Unwrap(slot).current_value, TRUE>>
    ELSE IF confirmation_status
    THEN <<"Unlocked", <<>>, <<>>, TRUE>>
    ELSE <<"Locked", <<>>, <<>>, FALSE>>

get_slot_status_decide_keeps_confirmed(slot, delta, confirmation_status) ==
    IF slot = None
    THEN <<"Unlocked", <<>>, <<>>, FALSE>>
    ELSE IF delta > RevertThreshold
    THEN <<"Reverted", Unwrap(slot).revert_value, Unwrap(slot).current_value, TRUE>>
    ELSE IF confirmation_status
    THEN <<"Unlocked", <<>>, <<>>, FALSE>>
    ELSE <<"Locked", <<>>, <<>>, FALSE>>

get_slot_status_decide_early_revert(slot, delta, confirmation_status) ==
    IF slot = None
    THEN <<"Unlocked", <<>>, <<>>, FALSE>>
    ELSE IF delta >= RevertThreshold
    THEN <<"Reverted", Unwrap(slot).revert_value, Unwrap(slot).current_value, TRUE>>
    ELSE IF confirmation_status
    THEN <<"Unlocked", <<>>, <<>>, TRUE>>
    ELSE <<"Locked", <<>>, <<>>, FALSE>>

get_slot_status_decide_unlocked_with_values(slot, delta, confirmation_status) ==
    IF slot = None
    THEN <<"Unlocked", <<>>, <<>>, FALSE>>
    ELSE IF delta > RevertThreshold
    THEN <<"Reverted", Unwrap(slot).revert_value, Unwrap(slot).current_value, TRUE>>
    ELSE IF confirmation_status
    THEN <<"Unlocked", Unwrap(slot).revert_value, Unwrap(slot).current_value, TRUE>>
    ELSE <<"Locked", <<>>, <<>>, FALSE>>

get_slot_status_decide_confirm_first(slot, delta, confirmation_status) ==
    IF slot = None
    THEN <<"Unlocked", <<>>, <<>>, FALSE>>
    ELSE IF confirmation_status
    THEN <<"Unlocked", <<>>, <<>>, TRUE>>
    ELSE IF delta > RevertThreshold
    THEN <<"Reverted", Unwrap(slot).revert_value, Unwrap(slot).current_value, TRUE>>
    ELSE <<"Locked", <<>>, <<>>, FALSE>>

\* The decision of get_slot_status inside its second transaction, for the
\* re-read row: <<status, revert_value, current_value, unlock>>.
get_slot_status_decide(slot, delta, confirmation_status) ==
    IF slot = None
    THEN <<"Unlocked", <<>>, <<>>, FALSE>>
    ELSE IF delta > RevertThreshold
    THEN <<"Reverted", Unwrap(slot).revert_value, Unwrap(slot).current_value, TRUE>>
    ELSE IF confirmation_status
    THEN <<"Unlocked", <<>>, <<>>, TRUE>>
    ELSE <<"Locked", <<>>, <<>>, FALSE>>

\* BitcoinRpcService::new.
BitcoinRpcService_new(confirmation_threshold, max_retries) ==
    [ confirmation_threshold |-> confirmation_threshold,
      max_retries |-> max_retries ]

\* Txid::from_str: the parse of the stored string into a transaction id.
Txid_from_str(txid) ==
    IF txid \in {"txid1", "txid2"} THEN Some(txid) ELSE None

OracleAnswers == {"confirmed", "unconfirmed", "error", "invalid_txid"}

\* The results is_tx_confirmed can return for a txid: Err for a string that
\* does not parse, before any RPC; otherwise Ok(true), Ok(false), or the Err
\* of the RPC.
is_tx_confirmed(txid) ==
    IF Txid_from_str(txid) = None
    THEN {"invalid_txid"}
    ELSE {"confirmed", "unconfirmed", "error"}

IsErr(answer) == answer \in {"error", "invalid_txid"}

returns_early_on_parse_error_only(answer) == answer = "invalid_txid"

\* The ? after is_tx_confirmed(..).await.map_err(..): an Err ends the
\* handler before its second transaction.
returns_early(answer) == IsErr(answer)

\* get_slot_status from the return of is_tx_confirmed on: the error return,
\* or the second transaction and the response.
get_slot_status_resume(t, answer) ==
    /\ pc[t] = "get_slot_status"
    /\ answer \in is_tx_confirmed(loc[t].slot_info.btc_txid)
    /\ UNCHANGED <<overflow_checks, poisoned>>
    /\ Finish(t)
    /\ IF returns_early(answer) \/ poisoned
       THEN /\ Completed("get_slot_status", req[t], InternalError,
                         [loc[t] EXCEPT !.oracle = answer])
            /\ UNCHANGED rows
       ELSE
       LET request == req[t]
           slot == get_slot_with_transaction(rows, request.contract_address,
                        request.slot_index, request.current_block)
           d == get_slot_status_decide(slot, loc[t].block_delta,
                                       answer = "confirmed")
       IN /\ rows' = IF d[4]
                     THEN unlock_slot_with_transaction(rows,
                              request.contract_address, request.slot_index,
                              request.current_block)
                     ELSE rows
          /\ Completed("get_slot_status", request,
                       Ok(GetSlotStatusResponse(d[1], request, d[2], d[3])),
                       [loc[t] EXCEPT !.oracle = answer])

GetSlotStatusResume ==
    /\ out = Idle
    /\ UNCHANGED <<mutex, bitcoin_service>>
    /\ \E t \in Tasks, answer \in OracleAnswers :
           /\ get_slot_status_resume(t, answer)
           /\ KeepPrev(req[t])

BatchGetSlotStatusRequests ==
    { [current_block |-> b, btc_block |-> c, slots |-> s] :
        b \in Blocks, c \in BtcBlocks, s \in SeqsUpTo(SlotIdentifiers, MaxBatch) }

\* The partition of the first read: indexes of the rows found closed, and of
\* the rows found active, each in input order.
unlocked_slots(existing_slots) ==
    SelectSeq(Indexes(existing_slots),
              LAMBDA idx : IsSome(existing_slots[idx])
                           /\ IsSome(Unwrap(existing_slots[idx]).end_block))

active_slots_one_per_key(existing_slots) ==
    SelectSeq(Indexes(existing_slots),
              LAMBDA idx : /\ IsSome(existing_slots[idx])
                           /\ ~IsSome(Unwrap(existing_slots[idx]).end_block)
                           /\ \A j \in 1..(idx - 1) :
                                  existing_slots[j] # existing_slots[idx])

active_slots(existing_slots) ==
    SelectSeq(Indexes(existing_slots),
              LAMBDA idx : IsSome(existing_slots[idx])
                           /\ ~IsSome(Unwrap(existing_slots[idx]).end_block))

\* The responses for the rows found closed; the values go with Reverted.
initial_slots(request, existing_slots) ==
    LET unlocked == unlocked_slots(existing_slots)
    IN [ k \in DOMAIN unlocked |->
           LET slot == Unwrap(existing_slots[unlocked[k]])
               delta == block_delta(request.btc_block, slot.btc_block)
           IN GetSlotStatusResponse(closed_status(delta), slot,
                 IF delta > RevertThreshold THEN slot.revert_value ELSE <<>>,
                 IF delta > RevertThreshold THEN slot.current_value ELSE <<>>) ]

\* The responses for the inputs with no visible row.
not_locked_responses(request, existing_slots) ==
    LET absent == SelectSeq(Indexes(existing_slots),
                            LAMBDA idx : ~IsSome(existing_slots[idx]))
    IN [ k \in DOMAIN absent |->
           GetSlotStatusResponse("Unlocked", request.slots[absent[k]], <<>>, <<>>) ]

Underflows(request, existing_slots, idxs) ==
    \E k \in DOMAIN idxs :
        Unwrap(existing_slots[idxs[k]]).btc_block > request.btc_block

\* batch_get_slot_status up to the await of the confirmation futures.
batch_get_slot_status_read(t, request) ==
    /\ pc[t] = "idle"
    /\ UNCHANGED <<rows, overflow_checks, poisoned>>
    /\ IF is_empty(request.slots)
       THEN /\ Completed("batch_get_slot_status", request, Ok(<<>>), Idle)
            /\ UNCHANGED <<pc, req, loc>>
       ELSE IF poisoned
       THEN /\ Completed("batch_get_slot_status", request, InternalError, Idle)
            /\ UNCHANGED <<pc, req, loc>>
       ELSE
       LET existing_slots == batch_get_locked_slots(rows, request.slots,
                                                    request.current_block)
       IN IF overflow_checks /\ Underflows(request, existing_slots,
                                  unlocked_slots(existing_slots))
          THEN /\ Completed("batch_get_slot_status", request, Panicked, Idle)
               /\ UNCHANGED <<pc, req, loc>>
          ELSE IF active_slots(existing_slots) = <<>>
          THEN /\ Completed("batch_get_slot_status", request,
                       Ok(initial_slots(request, existing_slots)
                          \o not_locked_responses(request, existing_slots)), Idle)
               /\ UNCHANGED <<pc, req, loc>>
          ELSE /\ Start(t, "batch_get_slot_status", request,
                        [existing_slots |-> existing_slots, oracle |-> "pending",
                         oracle_failed |-> FALSE, queries |-> <<>>])
               /\ UNCHANGED out

BatchGetSlotStatusRead ==
    /\ out = Idle
    /\ UNCHANGED <<mutex, bitcoin_service>>
    /\ prev' = Idle
    /\ \E t \in Tasks, request \in BatchGetSlotStatusRequests :
           batch_get_slot_status_read(t, request)

\* The txids of the active rows, each queried once.
unique_txids(existing_slots) ==
    { Unwrap(existing_slots[idx]).btc_txid :
        idx \in { i \in DOMAIN existing_slots :
                    IsSome(existing_slots[i])
                    /\ ~IsSome(Unwrap(existing_slots[i]).end_block) } }

confirmation_futures_per_slot(existing_slots) ==
    [ txid \in unique_txids(existing_slots) |->
        Cardinality({ i \in DOMAIN existing_slots :
                        /\ IsSome(existing_slots[i])
                        /\ ~IsSome(Unwrap(existing_slots[i]).end_block)
                        /\ Unwrap(existing_slots[i]).btc_txid = txid }) ]

\* confirmation_futures: one future per element of unique_txids, each
\* calling is_tx_confirmed once when it is polled; txid -> number of calls.
confirmation_futures(existing_slots) ==
    [ txid \in unique_txids(existing_slots) |-> 1 ]

\* The decision for one active row of the batch:
\* <<status, revert_value, current_value, unlock>>.
batch_decide(slot, delta, is_confirmed) ==
    IF delta > RevertThreshold \/ is_confirmed
    THEN IF delta > RevertThreshold
         THEN <<"Reverted", slot.revert_value, slot.current_value, TRUE>>
         ELSE <<"Unlocked", <<>>, <<>>, TRUE>>
    ELSE <<"Locked", <<>>, <<>>, FALSE>>

locked_slots(request, existing_slots, confirmation_statuses) ==
    LET active == active_slots(existing_slots)
    IN [ k \in DOMAIN active |->
           LET slot == Unwrap(existing_slots[active[k]])
               d == batch_decide(slot,
                        block_delta(request.btc_block, slot.btc_block),
                        confirmation_statuses[slot.btc_txid])
           IN GetSlotStatusResponse(d[1], slot, d[2], d[3]) ]

slots_to_unlock(request, existing_slots, confirmation_statuses) ==
    LET active == active_slots(existing_slots)
        closing == SelectSeq(active,
            LAMBDA idx :
                LET slot == Unwrap(existing_slots[idx])
                IN batch_decide(slot,
                       block_delta(request.btc_block, slot.btc_block),
                       confirmation_statuses[slot.btc_txid])[4])
    IN [ k \in DOMAIN closing |->
           [ contract_address |-> Unwrap(existing_slots[closing[k]]).contract_address,
             slot_index |-> Unwrap(existing_slots[closing[k]]).slot_index,
             end_block |-> request.current_block ] ]

\* batch_get_slot_status after try_join_all failed: a query returned Err and
\* the error is returned at once. try_join_all drops the futures that have
\* not finished, so the answers cover the futures polled so far, in the
\* iteration order of the HashSet, which is any order.
batch_get_slot_status_oracle_error(t, answers) ==
    /\ pc[t] = "batch_get_slot_status"
    /\ \A txid \in DOMAIN answers : answers[txid] \in is_tx_confirmed(txid)
    /\ \E txid \in DOMAIN answers : IsErr(answers[txid])
    /\ Finish(t)
    /\ Completed("batch_get_slot_status", req[t], InternalError,
                 [loc[t] EXCEPT !.oracle = answers, !.oracle_failed = TRUE,
                      !.queries = [ txid \in DOMAIN answers |->
                                      confirmation_futures(loc[t].existing_slots)[txid] ]])
    /\ UNCHANGED <<rows, overflow_checks, poisoned>>

\* batch_get_slot_status after try_join_all succeeded: the second
\* transaction and the response.
batch_get_slot_status_resume(t, confirmation_statuses) ==
    /\ pc[t] = "batch_get_slot_status"
    /\ Finish(t)
    /\ LET request == req[t]
           existing_slots == loc[t].existing_slots
       IN IF poisoned
          THEN /\ Completed("batch_get_slot_status", request, InternalError,
                            [loc[t] EXCEPT !.oracle = confirmation_statuses,
                                 !.queries = confirmation_futures(existing_slots)])
               /\ UNCHANGED <<rows, overflow_checks, poisoned>>
          ELSE IF overflow_checks /\ Underflows(request, existing_slots,
                                       active_slots(existing_slots))
          THEN \* the panic unwinds through with_transaction: the transaction
               \* rolls back and the MutexGuard poisons the mutex
               /\ Completed("batch_get_slot_status", request, Panicked,
                            [loc[t] EXCEPT !.oracle = confirmation_statuses,
                                 !.queries = confirmation_futures(existing_slots)])
               /\ poisoned' = TRUE
               /\ UNCHANGED <<rows, overflow_checks>>
          ELSE /\ rows' = batch_unlock_slots(rows,
                              slots_to_unlock(request, existing_slots,
                                              confirmation_statuses))
               /\ Completed("batch_get_slot_status", request,
                     Ok(initial_slots(request, existing_slots)
                        \o locked_slots(request, existing_slots, confirmation_statuses)
                        \o not_locked_responses(request, existing_slots)),
                     [loc[t] EXCEPT !.oracle = confirmation_statuses,
                          !.queries = confirmation_futures(existing_slots)])
               /\ UNCHANGED <<overflow_checks, poisoned>>

BatchGetSlotStatusOracleError ==
    /\ out = Idle
    /\ UNCHANGED <<mutex, bitcoin_service>>
    /\ prev' = Idle
    /\ \E t \in Tasks :
           /\ pc[t] = "batch_get_slot_status"
           /\ \E polled \in SUBSET unique_txids(loc[t].existing_slots) :
                  \E answers \in [polled -> OracleAnswers] :
                      batch_get_slot_status_oracle_error(t, answers)

BatchGetSlotStatusResume ==
    /\ out = Idle
    /\ UNCHANGED <<mutex, bitcoin_service>>
    /\ prev' = Idle
    /\ \E t \in Tasks :
           /\ pc[t] = "batch_get_slot_status"
           /\ \A txid \in unique_txids(loc[t].existing_slots) :
                  Txid_from_str(txid) # None
           /\ \E confirmation_statuses \in
                    [unique_txids(loc[t].existing_slots) -> BOOLEAN] :
                batch_get_slot_status_resume(t, confirmation_statuses)

\* The transport delivers the response to the caller. No handler reads out,
\* so delivery commutes with every handler step; it is taken first.
Deliver ==
    /\ out # Idle
    /\ UNCHANGED <<mutex, bitcoin_service>>
    /\ out' = Idle
    /\ UNCHANGED <<rows, overflow_checks, poisoned, pc, req, loc, prev>>

\* Delivery that remembers a get_slot_status exchange until the next response.
DeliverAndRemember ==
    /\ out # Idle
    /\ UNCHANGED <<mutex, bitcoin_service>>
    /\ out' = Idle
    /\ prev' = IF out.op = "get_slot_status"
               THEN [ op |-> out.op, req |-> out.req, resp |-> out.resp,
                      before |-> out.before, locals |-> out.locals,
                      after |-> rows ]
               ELSE Idle
    /\ UNCHANGED <<rows, overflow_checks, poisoned, pc, req, loc>>

Init ==
    /\ rows = <<>>
    /\ overflow_checks \in BOOLEAN
    /\ poisoned = FALSE
    /\ pc = [t \in Tasks |-> "idle"]
    /\ req = [t \in Tasks |-> Idle]
    /\ loc = [t \in Tasks |-> Idle]
    /\ out = Idle
    /\ prev = Idle
    /\ mutex = None
    /\ bitcoin_service = BitcoinRpcService_new(ConfirmationThreshold, MaxRetries)

Next ==
    \/ LockSlot
    \/ BatchLockSlot
    \/ BatchUnlockSlot
    \/ GetSlotStatusRead
    \/ GetSlotStatusResume
    \/ BatchGetSlotStatusRead
    \/ BatchGetSlotStatusOracleError
    \/ BatchGetSlotStatusResume
    \/ Deliver

Spec == Init /\ [][Next]_vars

NextHistory ==
    \/ LockSlot
    \/ BatchLockSlot
    \/ BatchUnlockSlot
    \/ GetSlotStatusRead
    \/ GetSlotStatusResume
    \/ BatchGetSlotStatusRead
    \/ BatchGetSlotStatusOracleError
    \/ BatchGetSlotStatusResume
    \/ DeliverAndRemember

SpecHistory == Init /\ [][NextHistory]_vars

\* ---------------------------------------------------------------- liveness

\* The key of a request or of a row, and the rows of a key.
KeyOf(x) == [contract_address |-> x.contract_address, slot_index |-> x.slot_index]

RowsOf(rs, k) ==
    { i \in DOMAIN rs : SameKey(rs[i], k.contract_address, k.slot_index) }

ActiveRowsOf(rs, k) == { i \in RowsOf(rs, k) : rs[i].end_block = None }

\* The oracle node answers every query it is asked: is_tx_confirmed returns
\* Ok(true) or Ok(false), or the Err of Txid::from_str, which is raised
\* before the node is asked.
GetSlotStatusAnswered ==
    /\ out = Idle
    /\ UNCHANGED <<mutex, bitcoin_service>>
    /\ \E t \in Tasks, answer \in OracleAnswers \ {"error"} :
           /\ get_slot_status_resume(t, answer)
           /\ KeepPrev(req[t])

\* A get_slot_status request for key k arrives at a height at or above the
\* start_block of an active row of k, with a btc_block more than
\* revert_threshold above that row's btc_block.
LateStatusRead(k) ==
    /\ out = Idle
    /\ UNCHANGED <<mutex, bitcoin_service>>
    /\ \E t \in Tasks, request \in GetSlotStatusRequests :
           /\ KeyOf(request) = k
           /\ \E i \in ActiveRowsOf(rows, k) :
                 /\ request.current_block >= rows[i].start_block
                 /\ request.btc_block - rows[i].btc_block > RevertThreshold
           /\ get_slot_status_read(t, request)
           /\ KeepPrev(request)

\* Locks and single status queries, served by an oracle that answers.
NextLive ==
    \/ LockSlot
    \/ GetSlotStatusRead
    \/ GetSlotStatusAnswered
    \/ Deliver

\* Late status queries keep arriving for every key; a call that awaits the
\* oracle is resumed however many other requests are served meanwhile, and
\* a response is delivered (the runtime polls every ready task).
SpecLive ==
    /\ Init
    /\ [][NextLive]_vars
    /\ \A k \in SlotIdentifiers : SF_vars(LateStatusRead(k))
    /\ SF_vars(GetSlotStatusAnswered)
    /\ WF_vars(Deliver)

\* ------------------------------------------------------------ concurrency

\* Two requests served side by side, each one call of a handler. Here the
\* steps under the mutex are taken one at a time: Mutex::lock, the
\* statements of the transaction, and the commit with the drop of the guard.
Clients == {"c1", "c2"}

\* The tables the two requests may find: an empty one, one with an active
\* row, one with that row closed.
LockedOnce ==
    insert_slot_lock(<<>>,
        SlotInsertData(SlotData("0x123", <<1>>, "txid1", <<4>>, <<7>>), 1, 1), 0)

StartTables ==
    { <<>>, LockedOnce, unlock_slot(LockedOnce, "0x123", <<1>>, 1) }

mutex_available_always(m) == TRUE

\* Mutex::lock returns only when no other thread holds the mutex.
mutex_available(m) == m = None

\* self.connection.lock() at the head of with_transaction: the guard is
\* taken, or the call fails because the mutex is poisoned.
connection_lock(c, op, held) ==
    /\ pc[c] = op
    /\ mutex_available(mutex)
    /\ UNCHANGED <<rows, overflow_checks, poisoned, req, out, prev, bitcoin_service>>
    /\ IF poisoned
       THEN /\ pc' = [pc EXCEPT ![c] = "done"]
            /\ loc' = [loc EXCEPT ![c] = [before |-> rows, resp |-> InternalError]]
            /\ UNCHANGED mutex
       ELSE /\ pc' = [pc EXCEPT ![c] = held]
            /\ mutex' = Some(c)
            /\ UNCHANGED loc

\* A lock_slot request reaches its handler.
ConcLockSlotCall(c) ==
    /\ pc[c] = "idle"
    /\ \E request \in LockSlotRequests :
           req' = [req EXCEPT ![c] = request]
    /\ pc' = [pc EXCEPT ![c] = "lock_slot"]
    /\ UNCHANGED <<rows, overflow_checks, poisoned, loc, out, prev, mutex, bitcoin_service>>

ConcLockSlotLock(c) == connection_lock(c, "lock_slot", "lock_slot:is_locked")

\* is_slot_locked_with_transaction inside the closure.
ConcLockSlotIsLocked(c) ==
    /\ pc[c] = "lock_slot:is_locked"
    /\ loc' = [loc EXCEPT ![c] =
                  [before |-> rows, is_locked |-> lock_slot_is_locked(rows, req[c])]]
    /\ pc' = [pc EXCEPT ![c] = "lock_slot:insert"]
    /\ UNCHANGED <<rows, overflow_checks, poisoned, req, out, prev, mutex, bitcoin_service>>

\* The rest of the closure, the commit, the drop of the guard, the response.
ConcLockSlotCommit(c) ==
    /\ pc[c] = "lock_slot:insert"
    /\ IF loc[c].is_locked
       THEN /\ UNCHANGED rows
            /\ loc' = [loc EXCEPT ![c] =
                  [before |-> loc[c].before,
                   resp |-> Ok(LockSlotResponse("AlreadyLocked", req[c]))]]
       ELSE /\ Len(rows) < MaxRows
            /\ \E now \in Timestamps(rows) :
                  rows' = insert_slot_lock(rows,
                              SlotInsertData(req[c], req[c].locked_at_block,
                                             req[c].btc_block), now)
            /\ loc' = [loc EXCEPT ![c] =
                  [before |-> loc[c].before,
                   resp |-> Ok(LockSlotResponse("Locked", req[c]))]]
    /\ mutex' = None
    /\ pc' = [pc EXCEPT ![c] = "done"]
    /\ UNCHANGED <<overflow_checks, poisoned, req, out, prev, bitcoin_service>>

\* The drop of the MutexGuard left out: the guard outlives the function.
guard_kept(c) == Some(c)

\* The MutexGuard is a local of get_slot and of with_transaction: it is
\* dropped, and the mutex freed, when the function returns.
guard_dropped(c) == None

\* The locals of a get_slot_status call, from its read on.
StatusLocals(before, slot, delta) ==
    [ before |-> before, slot |-> slot, block_delta |-> delta,
      results |-> <<>>, retries |-> 0, oracle |-> "pending", resp |-> Idle ]

\* A get_slot_status request reaches its handler.
ConcGetSlotStatusCall(c) ==
    /\ pc[c] = "idle"
    /\ \E request \in GetSlotStatusRequests :
           req' = [req EXCEPT ![c] = request]
    /\ pc' = [pc EXCEPT ![c] = "get_slot_status"]
    /\ UNCHANGED <<rows, overflow_checks, poisoned, loc, out, prev, mutex, bitcoin_service>>

\* get_slot: self.connection.lock().
ConcGetSlotLock(c) == connection_lock(c, "get_slot_status", "get_slot")

\* get_slot from its transaction to its return, and get_slot_status up to the
\* call of is_tx_confirmed: the early returns and the block delta.
ConcGetSlot(c) ==
    /\ pc[c] = "get_slot"
    /\ mutex' = guard_dropped(c)
    /\ UNCHANGED <<rows, overflow_checks, poisoned, req, out, prev, bitcoin_service>>
    /\ LET request == req[c]
           slot == get_slot_with_transaction(rows, request.contract_address,
                        request.slot_index, request.current_block)
           delta == IF slot = None THEN 0
                    ELSE block_delta(request.btc_block, Unwrap(slot).btc_block)
           locals == StatusLocals(rows, slot, delta)
       IN IF slot = None
          THEN /\ pc' = [pc EXCEPT ![c] = "done"]
               /\ loc' = [loc EXCEPT ![c] = [locals EXCEPT !.resp =
                       Ok(GetSlotStatusResponse("Unlocked", request, <<>>, <<>>))]]
          ELSE IF request.btc_block < Unwrap(slot).btc_block /\ overflow_checks
          THEN /\ pc' = [pc EXCEPT ![c] = "done"]
               /\ loc' = [loc EXCEPT ![c] = [locals EXCEPT !.resp = Panicked]]
          ELSE IF already_unlocked(Unwrap(slot))
          THEN /\ pc' = [pc EXCEPT ![c] = "done"]
               /\ loc' = [loc EXCEPT ![c] = [locals EXCEPT !.resp =
                       Ok(GetSlotStatusResponse(closed_status(delta), request,
                                                <<>>, <<>>))]]
          ELSE /\ pc' = [pc EXCEPT ![c] = "is_tx_confirmed"]
               /\ loc' = [loc EXCEPT ![c] = locals]

\* The results of one call of client.get_raw_transaction_info: the
\* transaction with its confirmations, an RPC error with its code (-5 is
\* "not found"), a transport error.
ClientResults ==
    { [kind |-> "ok", confirmations |-> n] :
        n \in {None} \cup { Some(k) : k \in 0..MaxConfirmations } }
    \cup { [kind |-> "rpc", code |-> code] : code \in {-5, -8} }
    \cup { [kind |-> "transport"] }

RpcOk(value) == [ok |-> TRUE, value |-> value]
RpcErr(error) == [ok |-> FALSE, error |-> error]

is_connectivity_error_any(result) == ~result.ok

is_connectivity_error(result) == ~result.ok /\ result.error.kind = "transport"

operation_strictly_above(client_result, threshold) ==
    IF client_result.kind = "ok"
    THEN IF client_result.confirmations = None
         THEN RpcOk(FALSE)
         ELSE RpcOk(Unwrap(client_result.confirmations) > threshold)
    ELSE IF client_result.kind = "rpc" /\ client_result.code = -5
    THEN RpcOk(FALSE)
    ELSE RpcErr(client_result)

\* The operation is_tx_confirmed hands to with_retry, applied to the result
\* of the client call.
operation(client_result, threshold) ==
    IF client_result.kind = "ok"
    THEN IF client_result.confirmations = None
         THEN RpcOk(FALSE)
         ELSE RpcOk(Unwrap(client_result.confirmations) >= threshold)
    ELSE IF client_result.kind = "rpc" /\ client_result.code = -5
    THEN RpcOk(FALSE)
    ELSE RpcErr(client_result)

strategy_take_max_retries(max_retries) == max_retries

\* .take((self.max_retries - 1) as usize): the number of retries after the
\* first attempt, wrapped around when max_retries is 0.
strategy_take(max_retries) == (max_retries - 1) % U32Modulus

\* is_tx_confirmed up to the first attempt of with_retry: the parse of the
\* txid and the retry strategy.
ConcIsTxConfirmed(c) ==
    /\ pc[c] = "is_tx_confirmed"
    /\ UNCHANGED <<rows, overflow_checks, poisoned, req, out, prev, mutex, bitcoin_service>>
    /\ IF Txid_from_str(Unwrap(loc[c].slot).btc_txid) = None
       THEN /\ pc' = [pc EXCEPT ![c] = "done"]
            /\ loc' = [loc EXCEPT ![c].oracle = [ok |-> FALSE,
                                                  error |-> "Invalid transaction ID"],
                                  ![c].resp = InternalError]
       ELSE IF bitcoin_service.max_retries = 0 /\ overflow_checks
       THEN /\ pc' = [pc EXCEPT ![c] = "done"]
            /\ loc' = [loc EXCEPT ![c].resp = Panicked]
       ELSE /\ pc' = [pc EXCEPT ![c] = "with_retry:operation"]
            /\ loc' = [loc EXCEPT ![c].retries =
                                      strategy_take(bitcoin_service.max_retries)]

\* One attempt of Retry::spawn: the client call, and what with_retry makes
\* of its result: the value, a retry after a sleep, or one of its two errors.
ConcOperation(c) ==
    /\ pc[c] = "with_retry:operation"
    /\ Len(loc[c].results) < MaxAttempts
    /\ UNCHANGED <<rows, overflow_checks, poisoned, req, out, prev, mutex, bitcoin_service>>
    /\ \E client_result \in ClientResults :
          LET result == operation(client_result, bitcoin_service.confirmation_threshold)
              results == Append(loc[c].results, client_result)
          IN IF result.ok
             THEN /\ pc' = [pc EXCEPT ![c] = "get_slot_status:resume"]
                  /\ loc' = [loc EXCEPT ![c].results = results, ![c].oracle = result]
             ELSE IF ~is_connectivity_error(result)
             THEN /\ pc' = [pc EXCEPT ![c] = "done"]
                  /\ loc' = [loc EXCEPT ![c].results = results,
                                        ![c].oracle = [ok |-> FALSE,
                                                       error |-> "Operation failed"],
                                        ![c].resp = InternalError]
             ELSE IF loc[c].retries > 0
             THEN /\ pc' = [pc EXCEPT ![c] = "with_retry:sleep"]
                  /\ loc' = [loc EXCEPT ![c].results = results,
                                        ![c].retries = loc[c].retries - 1]
             ELSE /\ pc' = [pc EXCEPT ![c] = "done"]
                  /\ loc' = [loc EXCEPT ![c].results = results,
                                        ![c].oracle = [ok |-> FALSE,
                                            error |-> "BitcoinNodeUnreachable",
                                            attempts |-> bitcoin_service.max_retries],
                                        ![c].resp = InternalError]

\* The backoff sleep between two attempts is over.
ConcBackoff(c) ==
    /\ pc[c] = "with_retry:sleep"
    /\ pc' = [pc EXCEPT ![c] = "with_retry:operation"]
    /\ UNCHANGED <<rows, overflow_checks, poisoned, req, loc, out, prev, mutex, bitcoin_service>>

\* with_transaction of get_slot_status: self.connection.lock().
ConcGetSlotStatusLock(c) ==
    connection_lock(c, "get_slot_status:resume", "get_slot_status:transaction")

\* The second transaction of get_slot_status: the re-read, the decision, the
\* unlock, the commit, the drop of the guard, the response.
ConcGetSlotStatusCommit(c) ==
    /\ pc[c] = "get_slot_status:transaction"
    /\ mutex' = guard_dropped(c)
    /\ pc' = [pc EXCEPT ![c] = "done"]
    /\ UNCHANGED <<overflow_checks, poisoned, req, out, prev, bitcoin_service>>
    /\ LET request == req[c]
           slot == get_slot_with_transaction(rows, request.contract_address,
                        request.slot_index, request.current_block)
           d == get_slot_status_decide(slot, loc[c].block_delta, loc[c].oracle.value)
       IN /\ rows' = IF d[4]
                     THEN unlock_slot_with_transaction(rows,
                              request.contract_address, request.slot_index,
                              request.current_block)
                     ELSE rows
          /\ loc' = [loc EXCEPT ![c].resp =
                        Ok(GetSlotStatusResponse(d[1], request, d[2], d[3]))]

\* A batch_get_slot_status request reaches its handler; an empty batch is
\* answered at once.
ConcBatchGetSlotStatusCall(c) ==
    /\ pc[c] = "idle"
    /\ \E request \in BatchGetSlotStatusRequests :
           /\ req' = [req EXCEPT ![c] = request]
           /\ IF request.slots = <<>>
              THEN /\ pc' = [pc EXCEPT ![c] = "done"]
                   /\ loc' = [loc EXCEPT ![c] = [before |-> rows, resp |-> Ok(<<>>)]]
              ELSE /\ pc' = [pc EXCEPT ![c] = "batch_get_slot_status"]
                   /\ UNCHANGED loc
    /\ UNCHANGED <<rows, overflow_checks, poisoned, out, prev, mutex, bitcoin_service>>

\* with_transaction around batch_get_locked_slots: self.connection.lock().
ConcBatchGetLockedSlotsLock(c) ==
    connection_lock(c, "batch_get_slot_status", "batch_get_locked_slots")

\* The first transaction of batch_get_slot_status to its return, and the
\* handler up to try_join_all: the partition and the answers from the read.
ConcBatchGetLockedSlots(c) ==
    /\ pc[c] = "batch_get_locked_slots"
    /\ mutex' = guard_dropped(c)
    /\ UNCHANGED <<rows, overflow_checks, poisoned, req, out, prev, bitcoin_service>>
    /\ LET request == req[c]
           existing_slots == batch_get_locked_slots(rows, request.slots,
                                                    request.current_block)
           locals == [ before |-> rows, existing_slots |-> existing_slots,
                       pending |-> unique_txids(existing_slots),
                       confirmation_statuses |-> <<>>, resp |-> Idle ]
       IN IF overflow_checks /\ Underflows(request, existing_slots,
                                  unlocked_slots(existing_slots))
          THEN /\ pc' = [pc EXCEPT ![c] = "done"]
               /\ loc' = [loc EXCEPT ![c] = [locals EXCEPT !.resp = Panicked]]
          ELSE IF active_slots(existing_slots) = <<>>
          THEN /\ pc' = [pc EXCEPT ![c] = "done"]
               /\ loc' = [loc EXCEPT ![c] = [locals EXCEPT !.resp =
                       Ok(initial_slots(request, existing_slots)
                          \o not_locked_responses(request, existing_slots))]]
          ELSE /\ pc' = [pc EXCEPT ![c] = "try_join_all"]
               /\ loc' = [loc EXCEPT ![c] = locals]

\* One of the confirmation futures of try_join_all completes: its value is
\* collected, or its error ends the handler.
ConcConfirmationFuture(c) ==
    /\ pc[c] = "try_join_all"
    /\ UNCHANGED <<rows, overflow_checks, poisoned, req, out, prev, mutex, bitcoin_service>>
    /\ \E txid \in loc[c].pending, answer \in OracleAnswers :
          /\ answer \in is_tx_confirmed(txid)
          /\ IF IsErr(answer)
             THEN /\ pc' = [pc EXCEPT ![c] = "done"]
                  /\ loc' = [loc EXCEPT ![c].resp = InternalError]
             ELSE /\ pc' = [pc EXCEPT ![c] =
                               IF loc[c].pending = {txid}
                               THEN "batch_get_slot_status:resume"
                               ELSE "try_join_all"]
                  /\ loc' = [loc EXCEPT
                        ![c].pending = loc[c].pending \ {txid},
                        ![c].confirmation_statuses =
                            loc[c].confirmation_statuses
                                @@ (txid :> (answer = "confirmed"))]

\* with_transaction of the second transaction: self.connection.lock().
ConcBatchGetSlotStatusLock(c) ==
    connection_lock(c, "batch_get_slot_status:resume",
                    "batch_get_slot_status:transaction")

\* The second transaction of batch_get_slot_status: the decisions, the
\* unlocks, the commit or the panic, the drop of the guard, the response.
ConcBatchGetSlotStatusCommit(c) ==
    /\ pc[c] = "batch_get_slot_status:transaction"
    /\ mutex' = guard_dropped(c)
    /\ pc' = [pc EXCEPT ![c] = "done"]
    /\ UNCHANGED <<overflow_checks, req, out, prev, bitcoin_service>>
    /\ LET request == req[c]
           existing_slots == loc[c].existing_slots
           confirmation_statuses == loc[c].confirmation_statuses
       IN IF overflow_checks /\ Underflows(request, existing_slots,
                                  active_slots(existing_slots))
          THEN /\ poisoned' = TRUE
               /\ loc' = [loc EXCEPT ![c].resp = Panicked]
               /\ UNCHANGED rows
          ELSE /\ rows' = batch_unlock_slots(rows,
                              slots_to_unlock(request, existing_slots,
                                              confirmation_statuses))
               /\ loc' = [loc EXCEPT ![c].resp =
                     Ok(initial_slots(request, existing_slots)
                        \o locked_slots(request, existing_slots, confirmation_statuses)
                        \o not_locked_responses(request, existing_slots))]
               /\ UNCHANGED poisoned

InitConcurrent ==
    /\ rows \in StartTables
    /\ overflow_checks \in BOOLEAN
    /\ poisoned = FALSE
    /\ pc = [c \in Clients |-> "idle"]
    /\ req = [c \in Clients |-> Idle]
    /\ loc = [c \in Clients |-> Idle]
    /\ out = Idle
    /\ prev = Idle
    /\ mutex = None
    /\ \E max_retries \in 0..MaxRetries :
           bitcoin_service = BitcoinRpcService_new(ConfirmationThreshold, max_retries)

NextConcurrent ==
    \/ \E c \in Clients : ConcLockSlotCall(c)
    \/ \E c \in Clients : ConcLockSlotLock(c)
    \/ \E c \in Clients : ConcLockSlotIsLocked(c)
    \/ \E c \in Clients : ConcLockSlotCommit(c)
    \/ \E c \in Clients : ConcGetSlotStatusCall(c)
    \/ \E c \in Clients : ConcGetSlotLock(c)
    \/ \E c \in Clients : ConcGetSlot(c)
    \/ \E c \in Clients : ConcIsTxConfirmed(c)
    \/ \E c \in Clients : ConcOperation(c)
    \/ \E c \in Clients : ConcBackoff(c)
    \/ \E c \in Clients : ConcGetSlotStatusLock(c)
    \/ \E c \in Clients : ConcGetSlotStatusCommit(c)
    \/ \E c \in Clients : ConcBatchGetSlotStatusCall(c)
    \/ \E c \in Clients : ConcBatchGetLockedSlotsLock(c)
    \/ \E c \in Clients : ConcBatchGetLockedSlots(c)
    \/ \E c \in Clients : ConcConfirmationFuture(c)
    \/ \E c \in Clients : ConcBatchGetSlotStatusLock(c)
    \/ \E c \in Clients : ConcBatchGetSlotStatusCommit(c)

SpecConcurrent == InitConcurrent /\ [][NextConcurrent]_vars

\* ----------------------------------------------------------- transactions

\* Two requests side by side again, with the transaction of with_transaction
\* in steps: the closure runs its statements on the shared connection, so
\* its writes are in the table at once; then the transaction commits, or it
\* is dropped and rolls back. Statements and commit may fail, and a request
\* may be cancelled where it awaits.

\* How a transaction of with_transaction ends: the closure returns Ok and
\* the commit succeeds, the closure returns Err (a statement failed), or
\* transaction.commit() returns Err.
StoreFailures == {"none", "closure", "commit"}

with_transaction_end_keeps_writes(before, written, failure) == written

\* with_transaction from the return of the closure on: f(&transaction)? and
\* transaction.commit()? leave on Err, and the Transaction that is dropped
\* rolls back; after a commit the table is the one the closure wrote.
with_transaction_end(before, written, failure) ==
    IF failure = "none" THEN written ELSE before

\* The closure of c has run: written is the table with its writes, on the
\* connection and not committed; closure_ok tells Ok from Err.
ClosureRan(c, written, closure_ok, response) ==
    /\ rows' = written
    /\ pc' = [pc EXCEPT ![c] = "with_transaction:end"]
    /\ loc' = [loc EXCEPT ![c] =
                  [ before |-> rows, written |-> written,
                    closure_ok |-> closure_ok, response |-> response ]]

\* A batch_lock_slot request with slots reaches its handler (the requests of
\* this section are those at the greatest height).
TxBatchLockSlotCall(c) ==
    /\ pc[c] = "idle"
    /\ \E request \in BatchLockSlotRequests :
           /\ request.slots # <<>>
           /\ request.locked_at_block = MaxBlock
           /\ req' = [req EXCEPT ![c] = request]
    /\ pc' = [pc EXCEPT ![c] = "batch_lock_slot"]
    /\ UNCHANGED <<rows, overflow_checks, poisoned, loc, out, prev, mutex, bitcoin_service>>

TxBatchLockSlotLock(c) ==
    connection_lock(c, "batch_lock_slot", "batch_lock_slot:closure")

\* The closure of batch_lock_slot: the read, the answers, the INSERT; on Err
\* the failed statement may or may not have written.
TxBatchLockSlotClosure(c) ==
    /\ pc[c] = "batch_lock_slot:closure"
    /\ UNCHANGED <<overflow_checks, poisoned, req, out, prev, mutex, bitcoin_service>>
    /\ \E now \in Timestamps(rows), closure_ok \in BOOLEAN :
          LET request == req[c]
              slots_to_insert == batch_lock_slots_to_insert(rows, request)
              after == IF slots_to_insert # <<>>
                       THEN batch_insert_slot_locks(rows, slots_to_insert, now)
                       ELSE rows
          IN /\ Len(after) <= MaxRows
             /\ \E written \in IF closure_ok THEN {after} ELSE {rows, after} :
                   ClosureRan(c, written, closure_ok,
                              Ok(batch_lock_responses(rows, request)))

\* A batch_unlock_slot request with slots reaches its handler.
TxBatchUnlockSlotCall(c) ==
    /\ pc[c] = "idle"
    /\ \E request \in BatchUnlockSlotRequests :
           /\ request.slots # <<>>
           /\ request.current_block = MaxBlock
           /\ req' = [req EXCEPT ![c] = request]
    /\ pc' = [pc EXCEPT ![c] = "batch_unlock_slot"]
    /\ UNCHANGED <<rows, overflow_checks, poisoned, loc, out, prev, mutex, bitcoin_service>>

TxBatchUnlockSlotLock(c) ==
    connection_lock(c, "batch_unlock_slot", "batch_unlock_slot:closure")

\* The closure of batch_unlock_slot: the UPDATE of batch_unlock_slots.
TxBatchUnlockSlotClosure(c) ==
    /\ pc[c] = "batch_unlock_slot:closure"
    /\ UNCHANGED <<overflow_checks, poisoned, req, out, prev, mutex, bitcoin_service>>
    /\ \E closure_ok \in BOOLEAN :
          LET request == req[c]
              after == batch_unlock_slots(rows, batch_unlock_slots_to_unlock(request))
          IN \E written \in IF closure_ok THEN {after} ELSE {rows, after} :
                ClosureRan(c, written, closure_ok, Ok(request.slots))

\* A batch_get_slot_status request with slots reaches its handler.
TxBatchGetSlotStatusCall(c) ==
    /\ pc[c] = "idle"
    /\ \E request \in BatchGetSlotStatusRequests :
           /\ request.slots # <<>>
           /\ request.current_block = MaxBlock
           /\ request.btc_block < MaxBtc
           /\ req' = [req EXCEPT ![c] = request]
    /\ pc' = [pc EXCEPT ![c] = "batch_get_slot_status"]
    /\ UNCHANGED <<rows, overflow_checks, poisoned, loc, out, prev, mutex, bitcoin_service>>

\* The closure of the second transaction of batch_get_slot_status: the
\* decisions, which may panic, and the UPDATE of batch_unlock_slots. The
\* panic drops the transaction and the guard, and poisons the mutex.
TxBatchGetSlotStatusClosure(c) ==
    /\ pc[c] = "batch_get_slot_status:transaction"
    /\ UNCHANGED <<overflow_checks, req, out, prev, bitcoin_service>>
    /\ LET request == req[c]
           existing_slots == loc[c].existing_slots
           confirmation_statuses == loc[c].confirmation_statuses
       IN IF overflow_checks /\ Underflows(request, existing_slots,
                                  active_slots(existing_slots))
          THEN /\ poisoned' = TRUE
               /\ mutex' = guard_dropped(c)
               /\ pc' = [pc EXCEPT ![c] = "done"]
               /\ loc' = [loc EXCEPT ![c] = [before |-> rows, resp |-> Panicked]]
               /\ UNCHANGED rows
          ELSE /\ UNCHANGED <<poisoned, mutex>>
               /\ \E closure_ok \in BOOLEAN :
                  LET after == batch_unlock_slots(rows,
                                   slots_to_unlock(request, existing_slots,
                                                   confirmation_statuses))
                  IN \E written \in IF closure_ok THEN {after} ELSE {rows, after} :
                        ClosureRan(c, written, closure_ok,
                            Ok(initial_slots(request, existing_slots)
                               \o locked_slots(request, existing_slots,
                                               confirmation_statuses)
                               \o not_locked_responses(request, existing_slots)))

\* with_transaction after the closure: the commit or the rollback, the drop
\* of the guard, the response of the handler.
TxEnd(c) ==
    /\ pc[c] = "with_transaction:end"
    /\ \E failure \in IF loc[c].closure_ok THEN {"none", "commit"} ELSE {"closure"} :
          /\ rows' = with_transaction_end(loc[c].before, rows, failure)
          /\ loc' = [loc EXCEPT ![c] =
                [ before |-> loc[c].before, written |-> loc[c].written,
                  failure |-> failure,
                  resp |-> IF failure = "none" THEN loc[c].response
                           ELSE InternalError ]]
    /\ mutex' = guard_dropped(c)
    /\ pc' = [pc EXCEPT ![c] = "done"]
    /\ UNCHANGED <<overflow_checks, poisoned, req, out, prev, bitcoin_service>>

\* The server's request timeout, or the caller going away, drops the future
\* of the handler where it is suspended: inside its oracle calls.
Cancel(c) ==
    /\ pc[c] \in {"try_join_all"}
    /\ pc' = [pc EXCEPT ![c] = "cancelled"]
    /\ UNCHANGED <<rows, overflow_checks, poisoned, req, loc, out, prev, mutex, bitcoin_service>>

\* The tables the requests may find: empty, one active row, two keys active.
LockedTwice ==
    insert_slot_lock(LockedOnce,
        SlotInsertData(SlotData("0x123", <<2>>, "txid2", <<4>>, <<7>>), 1, 1), 0)

InitTransaction ==
    /\ rows \in {<<>>, LockedOnce, LockedTwice}
    /\ overflow_checks \in BOOLEAN
    /\ poisoned = FALSE
    /\ pc = [c \in Clients |-> "idle"]
    /\ req = [c \in Clients |-> Idle]
    /\ loc = [c \in Clients |-> Idle]
    /\ out = Idle
    /\ prev = Idle
    /\ mutex = None
    /\ bitcoin_service = BitcoinRpcService_new(ConfirmationThreshold, MaxRetries)

NextTransaction ==
    \/ \E c \in Clients : TxBatchLockSlotCall(c)
    \/ \E c \in Clients : TxBatchLockSlotLock(c)
    \/ \E c \in Clients : TxBatchLockSlotClosure(c)
    \/ \E c \in Clients : TxBatchUnlockSlotCall(c)
    \/ \E c \in Clients : TxBatchUnlockSlotLock(c)
    \/ \E c \in Clients : TxBatchUnlockSlotClosure(c)
    \/ \E c \in Clients : TxBatchGetSlotStatusCall(c)
    \/ \E c \in Clients : ConcBatchGetLockedSlotsLock(c)
    \/ \E c \in Clients : ConcBatchGetLockedSlots(c)
    \/ \E c \in Clients : ConcConfirmationFuture(c)
    \/ \E c \in Clients : ConcBatchGetSlotStatusLock(c)
    \/ \E c \in Clients : TxBatchGetSlotStatusClosure(c)
    \/ \E c \in Clients : TxEnd(c)
    \/ \E c \in Clients : Cancel(c)

SpecTransaction == InitTransaction /\ [][NextTransaction]_vars

\* ---------------------------------------------------------------- claims

\* C1: in every reachable state, every (contract_address, slot_index) has at
\* most one row with end_block = NULL.
C1_SingleActiveRow ==
    \A k \in SlotIdentifiers : Cardinality(ActiveRowsOf(rows, k)) <= 1

\* C2: a lock_slot that the store serves, on a key that has an active row,
\* answers AlreadyLocked and leaves the whole table as it was.
C2_DoubleLockRefused ==
    ( /\ out.op = "lock_slot"
      /\ out.resp.code = "ok"
      /\ ActiveRowsOf(out.before, KeyOf(out.req)) # {} )
    => ( /\ out.resp.body.status = "AlreadyLocked"
         /\ rows = out.before )

C2_Witness ==
    /\ out.op = "lock_slot"
    /\ out.resp.code = "ok"
    /\ out.resp.body.status = "AlreadyLocked"
    /\ \E i \in ActiveRowsOf(out.before, KeyOf(out.req)) :
          /\ out.before[i].btc_txid # out.req.btc_txid
          /\ out.before[i].start_block # out.req.locked_at_block
          /\ out.before[i].revert_value # out.req.revert_value

\* A get_slot_status call that ran its second transaction and answered.
GssDecided ==
    /\ out.op = "get_slot_status"
    /\ out.resp.code = "ok"
    /\ out.locals # Idle

\* The rowid of the row that second transaction re-read, 0 if none.
GssReRead ==
    get_slot_query(out.before, out.req.contract_address, out.req.slot_index,
                   out.req.current_block)

\* The call saw one and the same active row, visible at current_block, in
\* its first read and in its second transaction.
GssActiveRow ==
    /\ GssDecided
    /\ GssReRead # 0
    /\ out.before[GssReRead].end_block = None
    /\ LockedSlot(out.before[GssReRead]) = out.locals.slot_info

\* The block delta of that row: request btc_block minus row btc_block.
GssDelta == out.req.btc_block - out.before[GssReRead].btc_block

GssClosedTheRow ==
    rows[GssReRead] =
        [out.before[GssReRead] EXCEPT !.end_block = Some(out.req.current_block)]

\* C3: get_slot_status on an active visible row whose block delta exceeds
\* revert_threshold closes the row at current_block and answers Reverted
\* with the row's revert_value and current_value.
C3_RevertClosesRow ==
    (GssActiveRow /\ GssDelta > RevertThreshold)
    => ( /\ GssClosedTheRow
         /\ out.resp.body =
               GetSlotStatusResponse("Reverted", out.req,
                   out.before[GssReRead].revert_value,
                   out.before[GssReRead].current_value) )

C3_Witness ==
    /\ GssActiveRow
    /\ GssDelta > RevertThreshold
    /\ out.locals.oracle = "unconfirmed"
    /\ out.resp.body.status = "Reverted"
    /\ out.resp.body.revert_value = <<4>>
    /\ rows[GssReRead].end_block = Some(out.req.current_block)

\* C4: get_slot_status on an active visible row whose block delta is within
\* revert_threshold and whose txid the oracle reports confirmed closes the
\* row at current_block and answers Unlocked with empty values.
C4_ConfirmedClosesRow ==
    ( /\ GssActiveRow
      /\ GssDelta >= 0
      /\ GssDelta <= RevertThreshold
      /\ out.locals.oracle = "confirmed" )
    => ( /\ GssClosedTheRow
         /\ out.resp.body = GetSlotStatusResponse("Unlocked", out.req, <<>>, <<>>) )

C4_Witness ==
    /\ GssActiveRow
    /\ GssDelta = RevertThreshold
    /\ out.locals.oracle = "confirmed"
    /\ out.resp.body.status = "Unlocked"
    /\ out.before[GssReRead].revert_value # <<>>
    /\ rows[GssReRead].end_block = Some(out.req.current_block)

\* A batch_get_slot_status call that ran its second transaction and answered.
BgsDecided ==
    /\ out.op = "batch_get_slot_status"
    /\ out.resp.code = "ok"
    /\ out.locals # Idle

\* Input idx of that call found an active row in the first read, and the
\* same row is what the read returns when the second transaction runs.
BgsActiveRow(idx) ==
    LET e == out.locals.existing_slots[idx]
    IN /\ IsSome(e)
       /\ Unwrap(e).end_block = None
       /\ batch_get_locked_slots(out.before, <<out.req.slots[idx]>>,
                                 out.req.current_block)[1] = e

BgsRow(idx) == Unwrap(out.locals.existing_slots[idx])

BgsDelta(idx) == out.req.btc_block - BgsRow(idx).btc_block

\* The positions of the response that answer for the key of input idx.
BgsEntries(idx) ==
    { j \in DOMAIN out.resp.body :
        KeyOf(out.resp.body[j]) = KeyOf(out.req.slots[idx]) }

BgsAnswers(idx, status, revert_value, current_value) ==
    /\ BgsEntries(idx) # {}
    /\ \A j \in BgsEntries(idx) :
          out.resp.body[j] =
              GetSlotStatusResponse(status, out.req.slots[idx],
                                    revert_value, current_value)

KeyUntouched(k) ==
    /\ Len(rows) = Len(out.before)
    /\ \A i \in RowsOf(out.before, k) : rows[i] = out.before[i]

\* C5: for an active visible row whose block delta is at most
\* revert_threshold and whose txid the oracle reports not confirmed,
\* get_slot_status answers Locked with empty values and changes no row, and
\* batch_get_slot_status answers Locked with empty values for that key and
\* changes no row of it.
C5_UnconfirmedStaysLocked ==
    /\ ( /\ GssActiveRow
         /\ GssDelta >= 0
         /\ GssDelta <= RevertThreshold
         /\ out.locals.oracle = "unconfirmed" )
       => ( /\ out.resp.body = GetSlotStatusResponse("Locked", out.req, <<>>, <<>>)
            /\ rows = out.before )
    /\ BgsDecided =>
         \A idx \in DOMAIN out.req.slots :
            ( /\ BgsActiveRow(idx)
              /\ BgsDelta(idx) >= 0
              /\ BgsDelta(idx) <= RevertThreshold
              /\ ~out.locals.oracle[BgsRow(idx).btc_txid] )
            => ( /\ BgsAnswers(idx, "Locked", <<>>, <<>>)
                 /\ KeyUntouched(KeyOf(out.req.slots[idx])) )

\* A batch of two keys, one answered Locked at the threshold and left alone
\* while the other is closed in the same second transaction.
C5_Witness ==
    /\ BgsDecided
    /\ Len(out.req.slots) = 2
    /\ BgsActiveRow(1)
    /\ BgsDelta(1) = RevertThreshold
    /\ ~out.locals.oracle[BgsRow(1).btc_txid]
    /\ out.resp.body[1].status = "Locked"
    /\ BgsRow(1).revert_value # <<>>
    /\ rows # out.before

\* C6: revert wins over confirmation: for an active visible row whose block
\* delta exceeds revert_threshold and whose txid the oracle reports
\* confirmed, get_slot_status and batch_get_slot_status answer Reverted with
\* the row's revert_value and current_value, never Unlocked.
C6_RevertWinsOverConfirmation ==
    /\ ( /\ GssActiveRow
         /\ GssDelta > RevertThreshold
         /\ out.locals.oracle = "confirmed" )
       => out.resp.body =
              GetSlotStatusResponse("Reverted", out.req,
                  out.before[GssReRead].revert_value,
                  out.before[GssReRead].current_value)
    /\ BgsDecided =>
         \A idx \in DOMAIN out.req.slots :
            ( /\ BgsActiveRow(idx)
              /\ BgsDelta(idx) > RevertThreshold
              /\ out.locals.oracle[BgsRow(idx).btc_txid] )
            => BgsAnswers(idx, "Reverted", BgsRow(idx).revert_value,
                          BgsRow(idx).current_value)

C6_Witness ==
    /\ GssActiveRow
    /\ GssDelta > RevertThreshold
    /\ out.locals.oracle = "confirmed"
    /\ out.resp.body.status = "Reverted"
    /\ out.resp.body.current_value = <<7>>

C6_WitnessBatch ==
    /\ BgsDecided
    /\ BgsActiveRow(1)
    /\ BgsDelta(1) > RevertThreshold
    /\ out.locals.oracle[BgsRow(1).btc_txid]
    /\ out.resp.body[1].status = "Reverted"
    /\ out.resp.body[1].revert_value = <<4>>

\* The key's only row, before the answering step, is active.
OnlyRowActive(k) ==
    /\ Cardinality(RowsOf(out.before, k)) = 1
    /\ ActiveRowsOf(out.before, k) = RowsOf(out.before, k)

OnlyRow(k) == out.before[CHOOSE i \in RowsOf(out.before, k) : TRUE]

\* The row of input idx was in the table when the batch call read it: the
\* call answered from that read, or its first read returned a row for idx.
InFirstRead(idx) ==
    out.locals # Idle => IsSome(out.locals.existing_slots[idx])

\* C7: when the key's only row is active with start_block s, get_slot_status
\* and batch_get_slot_status at current_block < s answer Unlocked with empty
\* values, without an oracle call for it, and leave the row active; at
\* current_block = s, with the delta within the threshold, they ask the
\* oracle and answer Locked when it reports not confirmed.
C7_StartBlockGating ==
    /\ ( /\ out.op = "get_slot_status"
         /\ out.resp.code = "ok"
         /\ OnlyRowActive(KeyOf(out.req)) )
       => LET r == OnlyRow(KeyOf(out.req))
              delta == out.req.btc_block - r.btc_block
          IN /\ out.req.current_block < r.start_block
                => ( /\ out.locals = Idle
                     /\ out.resp.body =
                            GetSlotStatusResponse("Unlocked", out.req, <<>>, <<>>)
                     /\ rows = out.before )
             /\ ( /\ out.req.current_block = r.start_block
                  /\ delta >= 0
                  /\ delta <= RevertThreshold )
                => ( /\ out.locals # Idle
                     /\ out.locals.oracle = "unconfirmed"
                        => ( /\ out.resp.body =
                                   GetSlotStatusResponse("Locked", out.req, <<>>, <<>>)
                             /\ rows = out.before ) )
    /\ ( /\ out.op = "batch_get_slot_status"
         /\ out.resp.code = "ok" )
       => /\ \A idx \in DOMAIN out.req.slots :
               LET k == KeyOf(out.req.slots[idx])
               IN OnlyRowActive(k) =>
                    LET r == OnlyRow(k)
                        delta == out.req.btc_block - r.btc_block
                    IN /\ out.req.current_block < r.start_block
                          => ( /\ out.locals # Idle
                                  => out.locals.existing_slots[idx] = None
                               /\ BgsAnswers(idx, "Unlocked", <<>>, <<>>)
                               /\ KeyUntouched(k) )
                       /\ ( /\ out.req.current_block = r.start_block
                            /\ delta >= 0
                            /\ delta <= RevertThreshold
                            /\ InFirstRead(idx) )
                          => ( /\ out.locals # Idle
                               /\ ~out.locals.oracle[r.btc_txid]
                                  => ( /\ BgsAnswers(idx, "Locked", <<>>, <<>>)
                                       /\ KeyUntouched(k) ) )
          /\ ( /\ out.req.slots # <<>>
               /\ \A idx \in DOMAIN out.req.slots :
                     LET k == KeyOf(out.req.slots[idx])
                     IN /\ OnlyRowActive(k)
                        /\ out.req.current_block < OnlyRow(k).start_block )
             => out.locals = Idle

\* One batch at height 1 over two keys: the first locked from block 2 is
\* answered Unlocked, the second locked from block 1 is answered Locked.
C7_Witness ==
    /\ out.op = "batch_get_slot_status"
    /\ out.resp.code = "ok"
    /\ Len(out.req.slots) = 2
    /\ out.req.current_block = 1
    /\ OnlyRowActive(KeyOf(out.req.slots[1]))
    /\ OnlyRowActive(KeyOf(out.req.slots[2]))
    /\ OnlyRow(KeyOf(out.req.slots[1])).start_block = 2
    /\ OnlyRow(KeyOf(out.req.slots[2])).start_block = 1
    /\ \E j, l \in DOMAIN out.resp.body :
          /\ out.resp.body[j] =
                GetSlotStatusResponse("Unlocked", out.req.slots[1], <<>>, <<>>)
          /\ out.resp.body[l] =
                GetSlotStatusResponse("Locked", out.req.slots[2], <<>>, <<>>)
    /\ rows = out.before

C7_WitnessSingle ==
    /\ out.op = "get_slot_status"
    /\ out.resp.code = "ok"
    /\ OnlyRowActive(KeyOf(out.req))
    /\ out.req.current_block < OnlyRow(KeyOf(out.req)).start_block
    /\ out.resp.body.status = "Unlocked"

\* The visibility predicate of the specification, for the rows of a key.
SatisfiesVisibility(r, h) ==
    /\ r.start_block <= h
    /\ (r.end_block = None \/ r.end_block = Some(h))

VisibleRowsOf(k, h) ==
    { i \in RowsOf(rows, k) : SatisfiesVisibility(rows[i], h) }

ReadIsVisibleRow(got, k, h) ==
    /\ IsSome(got) <=> VisibleRowsOf(k, h) # {}
    /\ IsSome(got) =>
          \E i \in VisibleRowsOf(k, h) : Unwrap(got) = LockedSlot(rows[i])

Heights == 0..(MaxBlock + 1)

\* C8: on every table a handler can find (the table between two handler
\* steps), get_slot, get_slot_with_transaction and batch_get_locked_slots
\* return a row for a key at height h exactly when the table has a row of
\* that key with start_block <= h and end_block NULL or equal to h, and the
\* row they return is such a row.
C8_VisibleReads ==
    out = Idle =>
    \A h \in Heights :
       /\ \A k \in SlotIdentifiers :
             /\ ReadIsVisibleRow(get_slot(rows, k.contract_address,
                                          k.slot_index, h), k, h)
             /\ ReadIsVisibleRow(get_slot_with_transaction(rows,
                                     k.contract_address, k.slot_index, h), k, h)
       /\ \A slots \in SeqsUpTo(SlotIdentifiers, MaxBatch) :
             LET got == batch_get_locked_slots(rows, slots, h)
             IN /\ DOMAIN got = DOMAIN slots
                /\ \A idx \in DOMAIN slots :
                      ReadIsVisibleRow(got[idx], KeyOf(slots[idx]), h)

\* A key with a row closed at height 1, read at 1 (visible) and at 2 (not).
C8_Witness ==
    /\ out = Idle
    /\ \E k \in SlotIdentifiers :
       /\ \E i \in RowsOf(rows, k) : rows[i].end_block = Some(1)
       /\ \A i \in RowsOf(rows, k) : rows[i].end_block # None
       /\ IsSome(get_slot(rows, k.contract_address, k.slot_index, 1))
       /\ get_slot(rows, k.contract_address, k.slot_index, 2) = None
       /\ batch_get_locked_slots(rows, <<k>>, 2) = <<None>>
       /\ IsSome(batch_get_locked_slots(rows, <<k>>, 1)[1])

\* Two get_slot_status exchanges in a row with the same request.
Repeated ==
    /\ prev # Idle
    /\ out.op = "get_slot_status"
    /\ out.req = prev.req

PrevRead ==
    get_slot_query(prev.before, prev.req.contract_address, prev.req.slot_index,
                   prev.req.current_block)

\* The row that the first of the two calls read was closed at current_block:
\* the call answered from its read of the table, or it carried the row it
\* had read into its second transaction.
PrevSawClosedRow ==
    IF prev.locals = Idle
    THEN /\ PrevRead # 0
         /\ prev.before[PrevRead].end_block = Some(prev.req.current_block)
    ELSE prev.locals.slot_info.end_block = Some(prev.req.current_block)

\* C9: when the row of the key visible at current_block is closed, two
\* successive get_slot_status calls with the same current_block and
\* btc_block return identical responses and neither changes any row.
C9_ClosedRowDeterminism ==
    (Repeated /\ PrevSawClosedRow)
    => ( /\ out.resp = prev.resp
         /\ prev.after = prev.before
         /\ out.before = prev.after
         /\ rows = out.before )

C9_Witness ==
    /\ Repeated
    /\ PrevSawClosedRow
    /\ prev.resp.code = "ok"
    /\ prev.resp.body.status = "Unlocked"
    /\ out.resp = prev.resp

\* C10: after a get_slot_status call closed an active row and answered
\* Reverted with the row's revert_value and current_value, the same call
\* repeated returns the same Reverted response with the same values.
C10_RevertedRepeats ==
    ( /\ Repeated
      /\ prev.locals # Idle
      /\ prev.resp.code = "ok"
      /\ prev.resp.body.status = "Reverted"
      /\ PrevRead # 0
      /\ prev.before[PrevRead].end_block = None
      /\ prev.after[PrevRead].end_block = Some(prev.req.current_block)
      /\ out.resp.code = "ok" )
    => out.resp = prev.resp

\* A status entry carries values only when it says Reverted.
EmptyUnlessReverted(entry) ==
    entry.status # "Reverted"
    => (entry.revert_value = <<>> /\ entry.current_value = <<>>)

\* C11: in every answer of get_slot_status and in every entry of an answer
\* of batch_get_slot_status, revert_value and current_value are non-empty
\* only if the status is Reverted; Locked and Unlocked carry empty values.
C11_ValuesOnlyOnReverted ==
    /\ (out.op = "get_slot_status" /\ out.resp.code = "ok")
       => EmptyUnlessReverted(out.resp.body)
    /\ (out.op = "batch_get_slot_status" /\ out.resp.code = "ok")
       => \A j \in DOMAIN out.resp.body : EmptyUnlessReverted(out.resp.body[j])

\* A batch answer with an entry Unlocked from a closed row and an entry
\* Locked from an active row, both rows holding non-empty values.
C11_Witness ==
    /\ BgsDecided
    /\ Len(out.req.slots) = 2
    /\ \E a, b \in DOMAIN out.req.slots :
          /\ IsSome(out.locals.existing_slots[a])
          /\ IsSome(out.locals.existing_slots[b])
          /\ IsSome(BgsRow(a).end_block)
          /\ BgsRow(a).revert_value # <<>>
          /\ ~IsSome(BgsRow(b).end_block)
          /\ BgsRow(b).revert_value # <<>>
          /\ BgsAnswers(a, "Unlocked", <<>>, <<>>)
          /\ BgsAnswers(b, "Locked", <<>>, <<>>)

BatchOps == {"batch_lock_slot", "batch_get_slot_status", "batch_unlock_slot"}

\* C12: the answer of batch_lock_slot, batch_get_slot_status and
\* batch_unlock_slot has the length of the request and its entry i carries
\* the key of input i.
C12_PositionalAlignment ==
    (out.op \in BatchOps /\ out.resp.code = "ok")
    => ( /\ Len(out.resp.body) = Len(out.req.slots)
         /\ \A i \in DOMAIN out.req.slots :
               KeyOf(out.resp.body[i]) = KeyOf(out.req.slots[i]) )

\* A status request one of whose oracle queries returned Err.
OracleFailed ==
    /\ out # Idle
    /\ out.locals # Idle
    /\ \/ out.op = "get_slot_status" /\ IsErr(out.locals.oracle)
       \/ out.op = "batch_get_slot_status" /\ out.locals.oracle_failed

\* C13: when an oracle query of get_slot_status or batch_get_slot_status
\* fails, the request returns an error and no row of the table changes.
C13_OracleFailureLeavesStore ==
    OracleFailed => (out.resp.code # "ok" /\ rows = out.before)

\* A batch over two active rows with different txids, both past the revert
\* threshold: the query for one txid succeeded, the other failed.
C13_Witness ==
    /\ OracleFailed
    /\ out.op = "batch_get_slot_status"
    /\ Len(out.req.slots) = 2
    /\ \A idx \in DOMAIN out.req.slots :
          /\ IsSome(out.locals.existing_slots[idx])
          /\ ~IsSome(BgsRow(idx).end_block)
          /\ BgsDelta(idx) > RevertThreshold
    /\ \E a, b \in DOMAIN out.locals.oracle :
          /\ out.locals.oracle[a] = "confirmed"
          /\ out.locals.oracle[b] = "error"
    /\ ActiveRowsOf(rows, KeyOf(out.req.slots[1])) # {}
    /\ ActiveRowsOf(rows, KeyOf(out.req.slots[2])) # {}

\* The argument batch_unlock_slot hands to the Store for keys and a block.
UnlockList(slots, block) ==
    [ i \in DOMAIN slots |->
        [ contract_address |-> slots[i].contract_address,
          slot_index |-> slots[i].slot_index, end_block |-> block ] ]

NoActiveRow(rs, slots) ==
    \A i \in DOMAIN slots : ActiveRowsOf(rs, KeyOf(slots[i])) = {}

\* C14: on every table between two handler steps, unlock_slot and
\* batch_unlock_slots applied twice with the same keys and block give the
\* table they give applied once, and applied to keys without an active row
\* they change nothing; a served batch_unlock_slot request leaves a table
\* that the same request would not change again.
C14_UnlockIdempotent ==
    /\ out = Idle =>
         \A b \in Blocks :
            /\ \A k \in SlotIdentifiers :
                  LET once == unlock_slot(rows, k.contract_address, k.slot_index, b)
                  IN /\ unlock_slot(once, k.contract_address, k.slot_index, b) = once
                     /\ NoActiveRow(rows, <<k>>) => once = rows
            /\ \A slots \in SeqsUpTo(SlotIdentifiers, MaxBatch) :
                  LET once == batch_unlock_slots(rows, UnlockList(slots, b))
                  IN /\ batch_unlock_slots(once, UnlockList(slots, b)) = once
                     /\ NoActiveRow(rows, slots) => once = rows
    /\ (out.op = "batch_unlock_slot" /\ out.resp.code = "ok")
       => /\ batch_unlock_slots(rows,
                 UnlockList(out.req.slots, out.req.current_block)) = rows
          /\ NoActiveRow(out.before, out.req.slots) => rows = out.before

\* A batch_unlock_slot at block 2 that closed the active row of a key which
\* also has a row closed at block 1.
C14_Witness ==
    /\ out.op = "batch_unlock_slot"
    /\ out.resp.code = "ok"
    /\ out.req.current_block = 2
    /\ \E k \in SlotIdentifiers, i, j \in DOMAIN rows :
          /\ \E n \in DOMAIN out.req.slots : KeyOf(out.req.slots[n]) = k
          /\ i \in RowsOf(rows, k)
          /\ j \in RowsOf(rows, k)
          /\ out.before[i].end_block = Some(1)
          /\ rows[i].end_block = Some(1)
          /\ out.before[j].end_block = None
          /\ rows[j].end_block = Some(2)

\* C15: once the end_block of a row is set, no step of any operation clears
\* it or changes it to another value.
C15_MonotoneClosure ==
    [][ \A i \in DOMAIN rows :
           rows[i].end_block # None
           => (i \in DOMAIN rows' /\ rows'[i].end_block = rows[i].end_block) ]_vars

\* A get_slot_status at block 2 that closed the active row of a key which
\* also has a row closed at block 1; that row is still closed at block 1.
C15_Witness ==
    /\ GssDecided
    /\ out.req.current_block = 2
    /\ \E i, j \in RowsOf(rows, KeyOf(out.req)) :
          /\ out.before[i].end_block = Some(1)
          /\ rows[i].end_block = Some(1)
          /\ out.before[j].end_block = None
          /\ rows[j].end_block = Some(2)

\* The fields of a row that are written once, by the insert.
Inserted(r) ==
    [ contract_address |-> r.contract_address, slot_index |-> r.slot_index,
      slot_index_int |-> r.slot_index_int, start_block |-> r.start_block,
      btc_block |-> r.btc_block, btc_txid |-> r.btc_txid,
      revert_value |-> r.revert_value, current_value |-> r.current_value ]

\* C16: no step of any operation removes a row or changes the
\* contract_address, slot_index, start_block, btc_block, btc_txid,
\* revert_value or current_value of a row; the only change a step makes to
\* an existing row is to set the end_block of an active row.
C16_AppendOnly ==
    [][ /\ Len(rows') >= Len(rows)
        /\ \A i \in DOMAIN rows :
              /\ Inserted(rows'[i]) = Inserted(rows[i])
              /\ rows'[i] # rows[i]
                 => (rows[i].end_block = None /\ rows'[i].end_block # None) ]_vars

\* A lock_slot that appended a row behind a closed row of the same key, the
\* closed row unchanged.
C16_Witness ==
    /\ out.op = "lock_slot"
    /\ out.resp.code = "ok"
    /\ Len(rows) = Len(out.before) + 1
    /\ \E i \in RowsOf(out.before, KeyOf(out.req)) :
          /\ out.before[i].end_block # None
          /\ rows[i] = out.before[i]
          /\ rows[Len(rows)].btc_txid # rows[i].btc_txid

\* Before the answering step the key had rows, all of them closed.
ClosedBefore(k) ==
    /\ RowsOf(out.before, k) # {}
    /\ ActiveRowsOf(out.before, k) = {}

OldRowsKept == \A i \in DOMAIN out.before : rows[i] = out.before[i]

\* C17: a lock_slot or batch_lock_slot for a key whose rows are all closed
\* answers Locked for it and inserts a new active row of the key, the closed
\* rows staying as they are, whatever locked_at_block the request carries.
C17_RelockAfterClose ==
    /\ ( /\ out.op = "lock_slot"
         /\ out.resp.code = "ok"
         /\ ClosedBefore(KeyOf(out.req)) )
       => ( /\ out.resp.body.status = "Locked"
            /\ Len(rows) = Len(out.before) + 1
            /\ Len(rows) \in ActiveRowsOf(rows, KeyOf(out.req))
            /\ rows[Len(rows)].start_block = out.req.locked_at_block
            /\ OldRowsKept )
    /\ ( /\ out.op = "batch_lock_slot"
         /\ out.resp.code = "ok" )
       => \A idx \in DOMAIN out.req.slots :
             ClosedBefore(KeyOf(out.req.slots[idx]))
             => ( /\ out.resp.body[idx].status = "Locked"
                  /\ \E i \in ActiveRowsOf(rows, KeyOf(out.req.slots[idx])) :
                        /\ i > Len(out.before)
                        /\ rows[i].start_block = out.req.locked_at_block
                  /\ OldRowsKept )

\* The status request met a stored txid that Txid::from_str rejects.
MalformedTxidMet ==
    /\ out # Idle
    /\ out.locals # Idle
    /\ \/ /\ out.op = "get_slot_status"
          /\ out.locals.oracle = "invalid_txid"
       \/ /\ out.op = "batch_get_slot_status"
          /\ out.locals.oracle_failed
          /\ \E txid \in DOMAIN out.locals.oracle :
                out.locals.oracle[txid] = "invalid_txid"

\* C19: a status request that meets a malformed stored txid fails with the
\* invalid-argument code, not with the internal code of transport failures.
C19_MalformedTxidInvalidArgument ==
    MalformedTxidMet => out.resp.code = "invalid_argument"

\* The first read of a batch_get_slot_status call.
BgsFirstRead ==
    IF out.locals = Idle
    THEN batch_get_locked_slots(out.before, out.req.slots, out.req.current_block)
    ELSE out.locals.existing_slots

\* A get_slot_status call that answered from its first read a closed row.
GssClosedRow ==
    /\ out.op = "get_slot_status"
    /\ out.resp.code = "ok"
    /\ out.locals = Idle
    /\ GssReRead # 0
    /\ out.before[GssReRead].end_block # None

\* C20: at a block delta of exactly revert_threshold no revert happens, in
\* get_slot_status and in batch_get_slot_status: an active row is not
\* answered Reverted, an active row whose txid is not confirmed is answered
\* Locked and stays active, and a closed row is answered Unlocked with empty
\* values.
C20_ThresholdBoundary ==
    /\ (GssActiveRow /\ GssDelta = RevertThreshold)
       => ( /\ out.resp.body.status # "Reverted"
            /\ out.locals.oracle = "unconfirmed"
               => ( /\ out.resp.body =
                          GetSlotStatusResponse("Locked", out.req, <<>>, <<>>)
                    /\ rows = out.before ) )
    /\ (GssClosedRow /\ GssDelta = RevertThreshold)
       => ( /\ out.resp.body =
                  GetSlotStatusResponse("Unlocked", out.req, <<>>, <<>>)
            /\ rows = out.before )
    /\ BgsDecided =>
         \A idx \in DOMAIN out.req.slots :
            (BgsActiveRow(idx) /\ BgsDelta(idx) = RevertThreshold)
            => ( /\ \A j \in BgsEntries(idx) :
                        out.resp.body[j].status # "Reverted"
                 /\ ~out.locals.oracle[BgsRow(idx).btc_txid]
                    => ( /\ BgsAnswers(idx, "Locked", <<>>, <<>>)
                         /\ KeyUntouched(KeyOf(out.req.slots[idx])) ) )
    /\ (out.op = "batch_get_slot_status" /\ out.resp.code = "ok") =>
         \A idx \in DOMAIN out.req.slots :
            LET e == BgsFirstRead[idx]
            IN ( /\ IsSome(e)
                 /\ IsSome(Unwrap(e).end_block)
                 /\ out.req.btc_block - Unwrap(e).btc_block = RevertThreshold )
               => ( /\ BgsAnswers(idx, "Unlocked", <<>>, <<>>)
                    /\ KeyUntouched(KeyOf(out.req.slots[idx])) )

\* A batch at the threshold for both of its rows: the closed one is answered
\* Unlocked, the active unconfirmed one Locked.
C20_Witness ==
    /\ BgsDecided
    /\ Len(out.req.slots) = 2
    /\ RevertThreshold > 0
    /\ \E i, j \in DOMAIN out.req.slots :
          /\ IsSome(BgsFirstRead[i])
          /\ IsSome(Unwrap(BgsFirstRead[i]).end_block)
          /\ out.req.btc_block - Unwrap(BgsFirstRead[i]).btc_block = RevertThreshold
          /\ BgsAnswers(i, "Unlocked", <<>>, <<>>)
          /\ BgsActiveRow(j)
          /\ BgsDelta(j) = RevertThreshold
          /\ ~out.locals.oracle[BgsRow(j).btc_txid]
          /\ BgsAnswers(j, "Locked", <<>>, <<>>)
          /\ ActiveRowsOf(rows, KeyOf(out.req.slots[j])) # {}

\* get_slot_status on a closed row at the threshold answers Unlocked.
C20_WitnessSingleClosed ==
    /\ GssClosedRow
    /\ GssDelta = RevertThreshold
    /\ out.resp.body.status = "Unlocked"

\* Row i is active and its txid is one the oracle can be asked about.
ActiveAnswerable(i) ==
    /\ Len(rows) >= i
    /\ rows[i].end_block = None
    /\ Txid_from_str(rows[i].btc_txid) # None

\* C18: under fairness, with an oracle that answers and late status queries
\* that keep arriving for the key, every active row is eventually closed:
\* no row stays active for ever.
C18_EventuallyClosed ==
    \A i \in 1..MaxRows :
        ActiveAnswerable(i) ~> (Len(rows) >= i /\ rows[i].end_block # None)

\* Both clients have their lock_slot answered, for one and the same key.
BothLockedSameKey ==
    /\ \A c \in Clients :
          /\ pc[c] = "done"
          /\ "locked_at_block" \in DOMAIN req[c]
          /\ "contract_address" \in DOMAIN req[c]
          /\ loc[c].resp.code = "ok"
    /\ KeyOf(req["c1"]) = KeyOf(req["c2"])

\* C21: two concurrent lock_slot requests for a key without an active row:
\* one is answered Locked, the other AlreadyLocked, and the key ends with
\* exactly one active row, which holds the fields of the request answered
\* Locked.
C21_ConcurrentLocksSerialized ==
    ( /\ BothLockedSameKey
      /\ \E c \in Clients : ActiveRowsOf(loc[c].before, KeyOf(req[c])) = {} )
    => \E a, b \in Clients :
          /\ a # b
          /\ loc[a].resp.body.status = "Locked"
          /\ loc[b].resp.body.status = "AlreadyLocked"
          /\ \E i \in DOMAIN rows :
                /\ ActiveRowsOf(rows, KeyOf(req[a])) = {i}
                /\ \E now \in 0..MaxTime :
                      rows[i] = NewRow(SlotInsertData(req[a],
                                    req[a].locked_at_block, req[a].btc_block), now)

\* The two requests differ in every field but the key, and the second took
\* the mutex while the first was still to be received by its handler or
\* waiting.
C21_Witness ==
    /\ BothLockedSameKey
    /\ loc["c1"].before = <<>>
    /\ loc["c2"].resp.body.status = "AlreadyLocked"
    /\ req["c1"].btc_txid # req["c2"].btc_txid
    /\ req["c1"].locked_at_block # req["c2"].locked_at_block
    /\ Len(rows) = 1

\* Between the first read of the get_slot_status call in x and its second
\* transaction another request closed the row it had read: the table before
\* the second transaction holds that row closed and no active row like it.
ClosedInBetween(x) ==
    /\ x.op = "get_slot_status"
    /\ x.resp.code = "ok"
    /\ x.locals # Idle
    /\ x.req.btc_block >= x.locals.slot_info.btc_block
    /\ \E i \in DOMAIN x.before :
          /\ x.before[i].end_block # None
          /\ [LockedSlot(x.before[i]) EXCEPT !.end_block = None] = x.locals.slot_info
    /\ \A i \in DOMAIN x.before : LockedSlot(x.before[i]) # x.locals.slot_info

\* C22: when another request closes the row between the two transactions of
\* a get_slot_status call, the second transaction closes no row.
C22_BenignRace ==
    (out # Idle /\ ClosedInBetween(out)) => rows = out.before

\* The batch_lock_slot call in out inserted a row for its input idx.
InsertedFor(idx) ==
    \E i \in DOMAIN rows :
        /\ i > Len(out.before)
        /\ \E now \in 0..MaxTime :
              rows[i] = NewRow(SlotInsertData(out.req.slots[idx],
                                   out.req.locked_at_block, out.req.btc_block), now)

\* C24: batch_lock_slot answers AlreadyLocked for an input exactly when the
\* key has an active row when the transaction runs, and Locked exactly when
\* the call inserts a new active row for that input.
C24_BatchLockAnswers ==
    (out.op = "batch_lock_slot" /\ out.resp.code = "ok")
    => \A idx \in DOMAIN out.req.slots :
          /\ out.resp.body[idx].status = "AlreadyLocked"
             <=> ActiveRowsOf(out.before, KeyOf(out.req.slots[idx])) # {}
          /\ out.resp.body[idx].status = "Locked" <=> InsertedFor(idx)

\* C25: batch_lock_slot never overwrites: for every input whose key has an
\* active row before the call, the rows of that key, their number and all
\* their fields, are the same after the call.
C25_BatchLockNeverOverwrites ==
    out.op = "batch_lock_slot"
    => \A idx \in DOMAIN out.req.slots :
          LET k == KeyOf(out.req.slots[idx])
          IN ActiveRowsOf(out.before, k) # {}
             => ( /\ RowsOf(rows, k) = RowsOf(out.before, k)
                  /\ \A i \in RowsOf(out.before, k) : rows[i] = out.before[i] )

\* A batch whose first entry carries other values than the key's active
\* row, and whose second entry is inserted.
C25_Witness ==
    /\ out.op = "batch_lock_slot"
    /\ out.resp.code = "ok"
    /\ Len(out.req.slots) = 2
    /\ \E i \in ActiveRowsOf(out.before, KeyOf(out.req.slots[1])) :
          /\ out.before[i].btc_txid # out.req.slots[1].btc_txid
          /\ out.before[i].revert_value # out.req.slots[1].revert_value
          /\ rows[i] = out.before[i]
    /\ Len(rows) = Len(out.before) + 1

\* The rows of key k visible at height h.
VisibleRowsAt(k, h) == { i \in RowsOf(rows, k) : VisibleAt(rows[i], h) }

\* C26: when several rows of a key are visible at a height, the single-key
\* read returns the one with the greatest start_block, and among those with
\* equal start_block the most recently created.
C26_ReadPrefersLatest ==
    \A k \in SlotIdentifiers, h \in Blocks :
        LET i == get_slot_query(rows, k.contract_address, k.slot_index, h)
        IN \A j \in VisibleRowsAt(k, h) :
              /\ rows[j].start_block <= rows[i].start_block
              /\ rows[j].start_block = rows[i].start_block
                 => rows[j].created_at <= rows[i].created_at

\* The row the get_slot_status call in out read first, None if there was none.
GssFirstRead ==
    IF out.locals = Idle
    THEN get_slot(out.before, out.req.contract_address, out.req.slot_index,
                  out.req.current_block)
    ELSE Some(out.locals.slot_info)

\* C27: a status request whose btc_block is below the btc_block of the row
\* it reads is served with a block delta of 0: it neither aborts nor wraps
\* around, so the row is not reported Reverted.
C27_DeltaClampedAtZero ==
    /\ ( /\ out.op = "get_slot_status"
         /\ out.resp.code # "internal"
         /\ IsSome(GssFirstRead)
         /\ out.req.btc_block < Unwrap(GssFirstRead).btc_block )
       => ( /\ out.resp.code = "ok"
            /\ out.resp.body.status # "Reverted" )
    /\ ( /\ out.op = "batch_get_slot_status"
         /\ out.resp.code # "internal" )
       => \A idx \in DOMAIN out.req.slots :
             ( /\ IsSome(BgsFirstRead[idx])
               /\ out.req.btc_block < Unwrap(BgsFirstRead[idx]).btc_block )
             => ( /\ out.resp.code = "ok"
                  /\ \A j \in BgsEntries(idx) :
                        out.resp.body[j].status # "Reverted" )

\* In table rs key k has a row closed at height h and an active row that
\* starts above h; ClosedAt is that closed row's rowid.
ClosedAt(rs, k, h) ==
    { i \in RowsOf(rs, k) : rs[i].end_block = Some(h) /\ rs[i].start_block <= h }

LockedAgainAbove(rs, k, h) ==
    /\ ClosedAt(rs, k, h) # {}
    /\ \E i \in ActiveRowsOf(rs, k) : rs[i].start_block > h

\* C28: a status query at the closing height h of a closed row, made after
\* the key was locked again with a start_block above h, answers the closed
\* row's terminal status (Reverted if the delta to that row exceeds
\* revert_threshold, else Unlocked) and leaves the new row as it is. (A
\* batch call qualifies when its first read did not return a row of the key
\* that was active and started at or below h.)
C28_ClosingHeightKeepsAnswer ==
    /\ ( /\ out.op = "get_slot_status"
         /\ out.resp.code = "ok"
         /\ out.locals = Idle
         /\ LockedAgainAbove(out.before, KeyOf(out.req), out.req.current_block) )
       => \A i \in ClosedAt(out.before, KeyOf(out.req), out.req.current_block) :
             out.req.btc_block >= out.before[i].btc_block
             => ( /\ out.resp.body.status =
                        closed_status(out.req.btc_block - out.before[i].btc_block)
                  /\ rows = out.before )
    /\ ( /\ out.op = "batch_get_slot_status"
         /\ out.resp.code = "ok" )
       => \A idx \in DOMAIN out.req.slots :
             LET k == KeyOf(out.req.slots[idx])
                 e == BgsFirstRead[idx]
             IN ( /\ LockedAgainAbove(out.before, k, out.req.current_block)
                  /\ IsSome(e)
                  /\ \/ Unwrap(e).end_block # None
                     \/ Unwrap(e).start_block > out.req.current_block )
                => \A i \in ClosedAt(out.before, k, out.req.current_block) :
                      out.req.btc_block >= out.before[i].btc_block
                      => ( /\ BgsEntries(idx) # {}
                           /\ \A j \in BgsEntries(idx) :
                                 out.resp.body[j].status =
                                    closed_status(out.req.btc_block
                                                  - out.before[i].btc_block)
                           /\ KeyUntouched(k) )

\* A batch query at height 1 for a key closed at 1 and locked again from 2,
\* past the revert window of the new row as well: it answers for the closed
\* row and the new row stays active.
C28_Witness ==
    /\ out.op = "batch_get_slot_status"
    /\ out.resp.code = "ok"
    /\ Len(out.req.slots) = 1
    /\ LockedAgainAbove(out.before, KeyOf(out.req.slots[1]), out.req.current_block)
    /\ out.req.btc_block - RevertThreshold > 1
    /\ out.resp.body[1].status = "Reverted"
    /\ ActiveRowsOf(rows, KeyOf(out.req.slots[1])) # {}

\* The is_tx_confirmed calls of the batch_get_slot_status call in out:
\* txid -> number of calls.
OracleQueries == IF out.locals = Idle THEN <<>> ELSE out.locals.queries

\* The txids of the input rows that were active and visible in its read.
ActiveTxids ==
    { Unwrap(BgsFirstRead[idx]).btc_txid :
        idx \in { i \in DOMAIN out.req.slots :
                    /\ IsSome(BgsFirstRead[i])
                    /\ Unwrap(BgsFirstRead[i]).end_block = None } }

\* C29 as stated: every batch_get_slot_status call queries the oracle
\* exactly once for each distinct txid of its active visible input rows.
C29_OncePerTxid ==
    (out.op = "batch_get_slot_status" /\ out.req.slots # <<>>
       /\ (out.locals = Idle => out.resp.code = "ok"))
    => ( /\ DOMAIN OracleQueries = ActiveTxids
         /\ \A txid \in ActiveTxids : OracleQueries[txid] = 1 )

\* C29, amended: a batch_get_slot_status call that succeeds has queried the
\* oracle exactly once for each distinct txid of its active visible input
\* rows, and not at all when no input row is active; a call that fails has
\* queried it at most once for each such txid and for no other.
C29_OncePerTxidOnSuccess ==
    (out.op = "batch_get_slot_status" /\ out.req.slots # <<>>
       /\ (out.locals = Idle => out.resp.code = "ok"))
    => ( /\ DOMAIN OracleQueries \subseteq ActiveTxids
         /\ \A txid \in DOMAIN OracleQueries : OracleQueries[txid] = 1
         /\ out.resp.code = "ok" => DOMAIN OracleQueries = ActiveTxids )

\* Two active rows that share a txid, answered after one query.
C29_Witness ==
    /\ BgsDecided
    /\ Len(out.req.slots) = 2
    /\ KeyOf(out.req.slots[1]) # KeyOf(out.req.slots[2])
    /\ BgsActiveRow(1)
    /\ BgsActiveRow(2)
    /\ BgsRow(1).btc_txid = BgsRow(2).btc_txid
    /\ DOMAIN OracleQueries = {BgsRow(1).btc_txid}
    /\ OracleQueries[BgsRow(1).btc_txid] = 1

\* The positions of a request inside its oracle calls: before the first
\* attempt, in an attempt, in a backoff sleep, in the join of a batch.
OraclePcs ==
    {"is_tx_confirmed", "with_retry:operation", "with_retry:sleep", "try_join_all"}

\* C23: a request whose oracle call is in progress, retries and backoff
\* sleeps included, does not hold the connection mutex (and with it no
\* transaction, which lives inside the guard's scope).
C23_NoMutexAcrossOracle ==
    \A c \in Clients : pc[c] \in OraclePcs => mutex # Some(c)

\* A request sleeps between two attempts while the other request, which
\* took the mutex after the first one's read, has committed its insert.
C23_Witness ==
    \E c, d \in Clients :
        /\ c # d
        /\ pc[c] = "with_retry:sleep"
        /\ pc[d] = "done"
        /\ req[d] \in LockSlotRequests
        /\ loc[d].resp.code = "ok"
        /\ loc[d].resp.body.status = "Locked"
        /\ Len(loc[c].before) = 1
        /\ Len(rows) = 2

\* with_retry of client c has returned.
RetryReturned(c) ==
    /\ pc[c] \in {"get_slot_status:resume", "get_slot_status:transaction", "done"}
    /\ loc[c] # Idle
    /\ "results" \in DOMAIN loc[c]
    /\ loc[c].results # <<>>

\* Every failure among the client calls of c was a transport error.
TransportFailuresOnly(c) ==
    \A i \in DOMAIN loc[c].results :
        LET r == operation(loc[c].results[i], bitcoin_service.confirmation_threshold)
        IN r.ok \/ is_connectivity_error(r)

\* C30: with max_retries >= 1 and a client whose failures are transport
\* errors, is_tx_confirmed of a txid that parses calls the client at most
\* max_retries times; it returns a value exactly when one of these calls
\* succeeds, and fails with BitcoinNodeUnreachable { attempts: max_retries }
\* after max_retries failed calls otherwise.
C30_AtMostMaxRetriesAttempts ==
    \A c \in Clients :
        ( /\ bitcoin_service.max_retries >= 1
          /\ loc[c] # Idle
          /\ "results" \in DOMAIN loc[c]
          /\ TransportFailuresOnly(c) )
        => /\ Len(loc[c].results) <= bitcoin_service.max_retries
           /\ RetryReturned(c) =>
                LET last == operation(loc[c].results[Len(loc[c].results)],
                                      bitcoin_service.confirmation_threshold)
                IN /\ loc[c].oracle.ok = last.ok
                   /\ loc[c].oracle.ok => loc[c].oracle.value = last.value
                   /\ ~loc[c].oracle.ok =>
                        /\ Len(loc[c].results) = bitcoin_service.max_retries
                        /\ loc[c].oracle.error = "BitcoinNodeUnreachable"
                        /\ loc[c].oracle.attempts = bitcoin_service.max_retries

\* Two attempts allowed, two transport errors, and the call has failed.
C30_Witness ==
    \E c \in Clients :
        /\ bitcoin_service.max_retries = 2
        /\ RetryReturned(c)
        /\ Len(loc[c].results) = 2
        /\ ~loc[c].oracle.ok
        /\ loc[c].oracle.error = "BitcoinNodeUnreachable"

\* The client calls made so far by the is_tx_confirmed call of client c, as
\* the operation of is_tx_confirmed sees them.
Attempts(c) ==
    IF loc[c] # Idle /\ "results" \in DOMAIN loc[c]
    THEN [ i \in DOMAIN loc[c].results |->
             operation(loc[c].results[i], bitcoin_service.confirmation_threshold) ]
    ELSE <<>>

\* C31: an RPC error of the client that is no transport error (and is not
\* code -5, which is_tx_confirmed answers with false) is the last call of
\* the client: is_tx_confirmed has failed with the generic "Operation failed"
\* error, not with BitcoinNodeUnreachable; every call that was followed by
\* another one ended in a transport error.
C31_NonTransportErrorNotRetried ==
    \A c \in Clients :
        \A i \in DOMAIN Attempts(c) :
            /\ (~Attempts(c)[i].ok /\ Attempts(c)[i].error.kind # "transport")
                 => /\ i = Len(Attempts(c))
                    /\ pc[c] = "done"
                    /\ loc[c].oracle = [ok |-> FALSE, error |-> "Operation failed"]
                    /\ loc[c].resp = InternalError
            /\ i < Len(Attempts(c))
                 => /\ ~Attempts(c)[i].ok
                    /\ Attempts(c)[i].error.kind = "transport"

\* A transport error was retried, the retry met an RPC error, and the call
\* has failed after these two client calls.
C31_Witness ==
    \E c \in Clients :
        /\ Len(Attempts(c)) = 2
        /\ loc[c].results[1].kind = "transport"
        /\ loc[c].results[2].kind = "rpc"
        /\ loc[c].results[2].code # -5
        /\ bitcoin_service.max_retries = 2
        /\ pc[c] = "done"

\* The answer of the client to the last call of client c.
LastClientResult(c) == loc[c].results[Len(loc[c].results)]

TransactionEnded(c) ==
    /\ pc[c] = "done"
    /\ "failure" \in DOMAIN loc[c]

\* C33: when with_transaction returns, the mutex is free; if the closure
\* returned an error (or the commit failed) the table is the one from before
\* the call, with none of the closure's writes; if the closure succeeded and
\* the commit went through, the table holds all of its writes.
C33_AllOrNothing ==
    [][ \A c \in Clients :
          (pc[c] = "with_transaction:end" /\ pc'[c] = "done")
          => /\ mutex = Some(c)
             /\ mutex' = None
             /\ rows = loc[c].written
             /\ loc'[c].failure # "none" => rows' = loc[c].before
             /\ ~loc[c].closure_ok => loc'[c].failure # "none"
             /\ loc'[c].failure = "none" => rows' = loc[c].written ]_vars

\* A batch insert of two rows whose closure returned an error after the
\* INSERT: the table is back to what it was.
C33_Witness ==
    \E c \in Clients :
        /\ TransactionEnded(c)
        /\ loc[c].failure = "closure"
        /\ Len(loc[c].written) = Len(loc[c].before) + 2
        /\ rows = loc[c].before
        /\ mutex = None

\* The positions of a request inside a transaction: its read, its closure,
\* the end of with_transaction.
TransactionPcs ==
    { "batch_get_locked_slots", "batch_lock_slot:closure",
      "batch_unlock_slot:closure", "batch_get_slot_status:transaction",
      "with_transaction:end" }

\* C34: a request is cancelled only where it holds neither the mutex nor a
\* transaction, the cancellation leaves the table as it is, and the request
\* does nothing more. The table changes only in steps of the one request
\* that has its transaction open, and no request runs a statement of its
\* own, a read included, while another one's transaction is open: writes
\* that are not committed are seen by nobody else.
C34_NoPartialWriteObserved ==
    [][ /\ \A c \in Clients :
             /\ (pc[c] # "cancelled" /\ pc'[c] = "cancelled")
                  => /\ rows' = rows
                     /\ mutex # Some(c)
                     /\ mutex' = mutex
                     /\ pc[c] \notin TransactionPcs
             /\ pc[c] = "cancelled" => (pc'[c] = "cancelled" /\ loc'[c] = loc[c])
             /\ (pc[c] \in TransactionPcs /\ pc'[c] # pc[c])
                  => \A d \in Clients \ {c} : pc[d] \notin TransactionPcs
        /\ rows' # rows =>
             \E c \in Clients : /\ pc[c] \in TransactionPcs
                                /\ pc'[c] # pc[c]
                                /\ mutex = Some(c) ]_vars

\* One request was cancelled inside its oracle calls; the other one closed
\* two rows in one transaction and committed.
C34_Witness ==
    \E c, d \in Clients :
        /\ pc[c] = "cancelled"
        /\ TransactionEnded(d)
        /\ loc[d].failure = "none"
        /\ loc[d].written # loc[d].before
        /\ \A i \in DOMAIN loc[d].before : loc[d].before[i].end_block = None
        /\ \A i \in DOMAIN rows : rows[i].end_block # None
        /\ Len(rows) = 2

\* C35: a batch request with an empty slots list is answered Ok with an
\* empty list, whatever the state of the store; the table is as it was and
\* the handler never got as far as its oracle calls.
C35_EmptyBatch ==
    (out.op \in BatchOps /\ out.req.slots = <<>>)
    => /\ out.resp = Ok(<<>>)
       /\ rows = out.before
       /\ out.locals = Idle

\* An empty batch_get_slot_status answered while the mutex is poisoned: the
\* answer comes before the store is touched.
C35_Witness ==
    /\ out.op = "batch_get_slot_status"
    /\ out.req.slots = <<>>
    /\ poisoned
    /\ out.resp = Ok(<<>>)

StatusOps == {"get_slot_status", "batch_get_slot_status"}

\* The rows the handler step that produced out has closed.
ClosedByOut ==
    { i \in DOMAIN out.before :
        out.before[i].end_block = None /\ rows[i].end_block # None }

\* C36: every row that get_slot_status or batch_get_slot_status closes gets
\* an end_block that is not below its start_block.
C36_ClosedNotBeforeStart ==
    out.op \in StatusOps
    => \A i \in ClosedByOut : Unwrap(rows[i].end_block) >= rows[i].start_block

\* Key k has a row that is visible at height h and active in table rs.
VisibleActive(rs, k, h) ==
    \E i \in RowsOf(rs, k) : VisibleAt(rs[i], h) /\ rs[i].end_block = None

\* The entries of the answer in out, one for get_slot_status.
StatusEntries ==
    IF out.op = "get_slot_status" THEN <<out.resp.body>> ELSE out.resp.body

\* C37: when get_slot_status or batch_get_slot_status answers Locked for a
\* key, the table its last transaction leaves has a row of the key that is
\* visible at current_block and active.
C37_LockedOnlyIfActive ==
    (out.op \in StatusOps /\ out.resp.code = "ok")
    => \A n \in DOMAIN StatusEntries :
          StatusEntries[n].status = "Locked"
          => VisibleActive(rows, KeyOf(StatusEntries[n]), out.req.current_block)

\* C38: every row that a batch_get_slot_status call closes is one of the
\* rows its first read returned as active; a row locked for the same key
\* after that read stays active (stated for tables in which no key has two
\* active rows).
C38_BatchClosesOnlyReadRows ==
    ( /\ out.op = "batch_get_slot_status"
      /\ out.resp.code = "ok"
      /\ \A k \in SlotIdentifiers : Cardinality(ActiveRowsOf(out.before, k)) <= 1 )
    => \A i \in ClosedByOut :
          \E idx \in DOMAIN BgsFirstRead :
              /\ IsSome(BgsFirstRead[idx])
              /\ Unwrap(BgsFirstRead[idx]) = LockedSlot(out.before[i])

\* get_slot_status run from its first read to its response with no other
\* call in between, on table rs, when is_tx_confirmed returns
\* Ok(confirmation_status): the status it answers and the table it leaves.
get_slot_status_uninterrupted(rs, request, confirmation_status) ==
    LET slot == get_slot(rs, request.contract_address, request.slot_index,
                         request.current_block)
    IN IF slot = None
       THEN [status |-> "Unlocked", rows |-> rs]
       ELSE
       LET slot_info == Unwrap(slot)
           delta == block_delta(request.btc_block, slot_info.btc_block)
       IN IF already_unlocked(slot_info)
          THEN [status |-> closed_status(delta), rows |-> rs]
          ELSE
          LET d == get_slot_status_decide(
                       get_slot_with_transaction(rs, request.contract_address,
                           request.slot_index, request.current_block),
                       delta, confirmation_status)
          IN [ status |-> d[1],
               rows |-> IF d[4]
                        THEN unlock_slot_with_transaction(rs,
                                 request.contract_address, request.slot_index,
                                 request.current_block)
                        ELSE rs ]

\* The get_slot_status request for the one key of the batch request in out.
SingleRequestOfOut ==
    [ current_block |-> out.req.current_block, btc_block |-> out.req.btc_block,
      contract_address |-> out.req.slots[1].contract_address,
      slot_index |-> out.req.slots[1].slot_index ]

\* The row get_slot_status would read for that request.
SingleReadOfOut ==
    get_slot(out.before, SingleRequestOfOut.contract_address,
             SingleRequestOfOut.slot_index, SingleRequestOfOut.current_block)

\* The oracle answers to compare under: the one the batch call got for the
\* txid get_slot_status would ask about, either one if it asked about none.
SingleAnswersOfOut ==
    IF SingleReadOfOut = None \/ out.locals = Idle
    THEN BOOLEAN
    ELSE IF Unwrap(SingleReadOfOut).btc_txid \in DOMAIN out.locals.oracle
    THEN {out.locals.oracle[Unwrap(SingleReadOfOut).btc_txid]}
    ELSE BOOLEAN

\* A batch_get_slot_status call with a one-element input has answered, no
\* key has two active rows, no other call ran between its two transactions,
\* and get_slot_status for the same key would neither hit the u64 underflow
\* nor a txid that does not parse.
BatchOfOneAnswered ==
    /\ out.op = "batch_get_slot_status"
    /\ out.resp.code = "ok"
    /\ Len(out.req.slots) = 1
    /\ \A k \in SlotIdentifiers : Cardinality(ActiveRowsOf(out.before, k)) <= 1
    /\ BgsFirstRead = batch_get_locked_slots(out.before, out.req.slots,
                                             out.req.current_block)
    /\ SingleReadOfOut # None
       => /\ Txid_from_str(Unwrap(SingleReadOfOut).btc_txid) # None
          /\ Unwrap(SingleReadOfOut).btc_block <= out.req.btc_block

\* C39: batch_get_slot_status with the one-element input [key] answers the
\* status get_slot_status answers for that key on the same table, heights
\* and oracle answer, and leaves the table get_slot_status leaves.
C39_BatchOfOneAsSingle ==
    BatchOfOneAnswered
    => \A confirmation_status \in SingleAnswersOfOut :
          LET single == get_slot_status_uninterrupted(out.before,
                            SingleRequestOfOut, confirmation_status)
          IN /\ Len(out.resp.body) = 1
             /\ out.resp.body[1].status = single.status
             /\ rows = single.rows

\* The number of elements of sequence xs whose key is k.
KeyCount(xs, k) == Cardinality({ n \in DOMAIN xs : KeyOf(xs[n]) = k })

\* C40: a successful batch_get_slot_status returns as many entries as its
\* input has, and every key occurs in the output as often as in the input.
C40_OutputKeysAreInputKeys ==
    (out.op = "batch_get_slot_status" /\ out.resp.code = "ok")
    => /\ Len(out.resp.body) = Len(out.req.slots)
       /\ \A n \in DOMAIN out.resp.body :
              KeyOf(out.resp.body[n]) \in SlotIdentifiers
       /\ \A k \in SlotIdentifiers :
              KeyCount(out.resp.body, k) = KeyCount(out.req.slots, k)

\* A batch that names one key twice, found active by the first read, has
\* been answered after its oracle call with two entries for the key.
C40_Witness ==
    /\ out.op = "batch_get_slot_status"
    /\ out.resp.code = "ok"
    /\ Len(out.req.slots) = 2
    /\ out.req.slots[1] = out.req.slots[2]
    /\ out.locals # Idle
    /\ Len(out.resp.body) = 2

====
